---------------------------- MODULE Spec2Model ----------------------------
(***************************************************************************)
(* go-hidproxy: capture handlers read evdev events from keyboards and      *)
(* mice, translate them into USB HID boot-protocol reports and enqueue     *)
(* them on a per-class channel; one writer per class writes the reports    *)
(* to its gadget device node; main() supervises the handlers.              *)
(*                                                                         *)
(* Every goroutine is modelled with one action per iteration of its loop,  *)
(* guarded by the blocking operation of that iteration (the channel send   *)
(* of a handler, the channel receive of a writer).                         *)
(***************************************************************************)
EXTENDS Integers, Sequences, FiniteSets, TLC

(***************************************************************************)
(* Program constants                                                       *)
(***************************************************************************)
\* evdev event types
EV_SYN == 0
EV_KEY == 1
EV_REL == 2

\* modifier bits of byte 0 of a keyboard report
LEFT_CONTROL == 1
LEFT_SHIFT == 2
LEFT_ALT == 4
LEFT_META == 8
RIGHT_CONTROL == 16
RIGHT_SHIFT == 32
RIGHT_ALT == 64
RIGHT_META == 128

\* button bits of byte 0 of a mouse report
BUTTON_LEFT == 1
BUTTON_RIGHT == 2
BUTTON_MIDDLE == 4

\* capacities of the channels made in main()
KeyboardQueueCap == 10
MouseQueueCap == 100
OutputCap == 10
CloseCap == 10

\* the handler polls its close channel when loop > LoopLimit
LoopLimit == 3

\* var Scancodes = map[uint16]uint16{...}: raw scancode -> HID usage
ScancodeTable ==
  { <<2, 30>>, <<3, 31>>, <<4, 32>>, <<5, 33>>, <<6, 34>>, <<7, 35>>, <<8, 36>>, <<9, 37>>,
    <<10, 38>>, <<11, 39>>, <<57, 44>>, <<14, 42>>, <<28, 40>>, <<1, 41>>, <<106, 79>>, <<105, 80>>,
    <<108, 81>>, <<103, 82>>, <<59, 58>>, <<60, 59>>, <<61, 60>>, <<62, 61>>, <<63, 62>>, <<64, 63>>,
    <<65, 64>>, <<66, 65>>, <<67, 66>>, <<68, 67>>, <<69, 68>>, <<70, 69>>, <<12, 45>>, <<13, 46>>,
    <<15, 43>>, <<26, 47>>, <<27, 48>>, <<39, 51>>, <<40, 52>>, <<51, 54>>, <<52, 55>>, <<53, 56>>,
    <<41, 50>>, <<43, 49>>, <<30, 4>>, <<48, 5>>, <<46, 6>>, <<32, 7>>, <<18, 8>>, <<33, 9>>,
    <<34, 10>>, <<35, 11>>, <<23, 12>>, <<36, 13>>, <<37, 14>>, <<38, 15>>, <<50, 16>>, <<49, 17>>,
    <<24, 18>>, <<25, 19>>, <<16, 20>>, <<19, 21>>, <<31, 22>>, <<20, 23>>, <<22, 24>>, <<47, 25>>,
    <<17, 26>>, <<45, 27>>, <<21, 28>>, <<44, 29>>, <<86, 49>>, <<104, 75>>, <<109, 78>>, <<102, 74>>,
    <<107, 77>>, <<110, 73>>, <<119, 72>>, <<99, 70>>, <<87, 68>>, <<88, 69>>, <<113, 127>>, <<114, 129>>,
    <<115, 128>>, <<58, 57>>, <<158, 122>>, <<159, 121>>, <<29, 224>>, <<125, 227>>, <<42, 225>>, <<56, 226>>,
    <<100, 230>>, <<127, 231>>, <<97, 228>>, <<54, 229>> }

\* Scancodes with an entry for the scancode 240
ScancodesWithMute ==
  [sc \in {p[1] : p \in ScancodeTable} \cup {240} |->
     IF sc = 240 THEN 127 ELSE (CHOOSE p \in ScancodeTable : p[1] = sc)[2]]

Scancodes == [sc \in {p[1] : p \in ScancodeTable} |->
                (CHOOSE p \in ScancodeTable : p[1] = sc)[2]]

(***************************************************************************)
(* Integer conversions and bit operations on bytes                         *)
(***************************************************************************)
\* uint8(v) of a wider integer: the low 8 bits
Uint8(v) == v % 256

\* a byte read as a signed 8-bit integer (how the USB host reads dx, dy, wheel)
Int8(b) == IF b >= 128 THEN b - 256 ELSE b

\* is the single bit `bit` (a power of two) set in byte b
HasBit(b, bit) == (b \div bit) % 2 = 1

\* b | bit
BitOr(b, bit) == IF HasBit(b, bit) THEN b ELSE b + bit

\* b & ^uint8(bit)
BitClear(b, bit) == IF HasBit(b, bit) THEN b - bit ELSE b


(***************************************************************************)
(* Keyboard translation (HandleKeyboard)                                   *)
(***************************************************************************)
\* the keysDown slice holds keyCode
KeyIsDown(keys, keyCode) == \E i \in 1..Len(keys) : keys[i] = keyCode

\* KeyDown without the keyIsDown test
KeyDownAlwaysAppends(keys, keyCode) == Append(keys, keyCode)

\* keyEvent.State == 1: append keyCode unless already there
KeyDown(keys, keyCode) ==
  IF KeyIsDown(keys, keyCode) THEN keys ELSE Append(keys, keyCode)

\* KeyUp with k == keyCode for k != keyCode
KeyUpKeepsReleased(keys, keyCode) == SelectSeq(keys, LAMBDA k : k = keyCode)

\* keyEvent.State == 0: keep, in order, the entries other than keyCode
RECURSIVE KeyUp(_, _)
KeyUp(keys, keyCode) ==
  IF keys = <<>> THEN <<>>
  ELSE IF Head(keys) # keyCode
       THEN <<Head(keys)>> \o KeyUp(Tail(keys), keyCode)
       ELSE KeyUp(Tail(keys), keyCode)

\* keysDown after a key event with a known scancode
UpdateKeysDown(keys, keyCode, state) ==
  IF state = 1 THEN KeyDown(keys, keyCode)
  ELSE IF state = 0 THEN KeyUp(keys, keyCode)
  ELSE keys

\* ModifierBit with the bits of Left-Cmd and Left-Alt exchanged
ModifierBitCmdAltSwapped(k) ==
  CASE k = 224 -> LEFT_CONTROL
    [] k = 227 -> LEFT_ALT
    [] k = 225 -> LEFT_SHIFT
    [] k = 226 -> LEFT_META
    [] k = 228 -> RIGHT_CONTROL
    [] k = 231 -> RIGHT_META
    [] k = 229 -> RIGHT_SHIFT
    [] k = 230 -> RIGHT_ALT
    [] OTHER -> 0

\* the switch over k: the bit a usage contributes to byte 0, 0 for the
\* default branch
ModifierBit(k) ==
  CASE k = 224 -> LEFT_CONTROL
    [] k = 227 -> LEFT_META
    [] k = 225 -> LEFT_SHIFT
    [] k = 226 -> LEFT_ALT
    [] k = 228 -> RIGHT_CONTROL
    [] k = 231 -> RIGHT_META
    [] k = 229 -> RIGHT_SHIFT
    [] k = 230 -> RIGHT_ALT
    [] OTHER -> 0

\* modifiers |= ... over keysDown
RECURSIVE Modifiers(_)
Modifiers(keys) ==
  IF keys = <<>> THEN 0
  ELSE LET rest == Modifiers(SubSeq(keys, 1, Len(keys) - 1))
           bit == ModifierBit(keys[Len(keys)])
       IN IF bit = 0 THEN rest ELSE BitOr(rest, bit)

\* keysToSend before the prefix is added: uint8(k) of every k of the
\* default branch, in keysDown order
RECURSIVE KeySlots(_)
KeySlots(keys) ==
  IF keys = <<>> THEN <<>>
  ELSE IF ModifierBit(Head(keys)) = 0
       THEN <<Uint8(Head(keys))>> \o KeySlots(Tail(keys))
       ELSE KeySlots(Tail(keys))

\* append uint8(0) while len < n
PadTo(bytes, n) ==
  bytes \o [i \in 1..(IF Len(bytes) < n THEN n - Len(bytes) ELSE 0) |-> 0]

\* the Message of the InputMessage a key event enqueues
KeyboardReport(keys) == PadTo(<<Modifiers(keys), 0>> \o KeySlots(keys), 8)

(***************************************************************************)
(* Mouse translation (HandleMouse)                                         *)
(***************************************************************************)
\* event.Code is one of the three button codes
IsButtonCode(code) == code \in {272, 273, 274}

\* the bit of a button code
ButtonBit(code) ==
  CASE code = 272 -> BUTTON_LEFT
    [] code = 273 -> BUTTON_RIGHT
    [] code = 274 -> BUTTON_MIDDLE

\* UpdateButtons with buttons &= BUTTON for buttons &= ^BUTTON
UpdateButtonsNoComplement(b, ev) ==
  IF ev.Type = EV_KEY /\ IsButtonCode(ev.Code)
  THEN IF ev.Value > 0 THEN BitOr(b, ButtonBit(ev.Code))
                       ELSE IF HasBit(b, ButtonBit(ev.Code))
                            THEN ButtonBit(ev.Code) ELSE 0
  ELSE b

\* buttons after an event
UpdateButtons(b, ev) ==
  IF ev.Type = EV_KEY /\ IsButtonCode(ev.Code)
  THEN IF ev.Value > 0 THEN BitOr(b, ButtonBit(ev.Code))
                       ELSE BitClear(b, ButtonBit(ev.Code))
  ELSE b

\* buttonOp
ButtonOp(ev) == ev.Type = EV_KEY /\ IsButtonCode(ev.Code)

\* the event makes HandleMouse send a report
MouseSends(ev) == ev.Type = EV_REL \/ ButtonOp(ev)

\* the bytes appended after buttons for an EV_REL event; the three ifs
\* on event.Code have no else
RelBytes(ev) ==
  (IF ev.Code = 0 THEN <<Uint8(ev.Value), 0, 0>> ELSE <<>>)
  \o (IF ev.Code = 1 THEN <<0, Uint8(ev.Value), 0>> ELSE <<>>)
  \o (IF ev.Code = 11 THEN <<0, 0, Uint8(ev.Value)>> ELSE <<>>)

\* MouseReport with the buttons left out of the reports of motion
MouseReportMotionWithoutButtons(b, ev) ==
  IF ev.Type = EV_REL THEN <<0>> \o RelBytes(ev) ELSE <<b, 0, 0, 0>>


\* mouseToSend, given buttons as updated by the event
MouseReport(b, ev) ==
  <<b>> \o (IF ev.Type = EV_REL THEN RelBytes(ev) ELSE <<0, 0, 0>>)

(***************************************************************************)
(* Input devices                                                           *)
(***************************************************************************)
\* evdev.InputDevice values that ListInputDevices can return; a Name is a
\* sequence of characters
KeyboardA == [Fn |-> "/dev/input/event0", Name |-> <<"K">>,
              Capabilities |-> {"EV_KEY"}]
KeyboardB == [Fn |-> "/dev/input/event1", Name |-> <<"K", "2">>,
              Capabilities |-> {"EV_KEY"}]
MouseA == [Fn |-> "/dev/input/event2", Name |-> <<"M">>,
           Capabilities |-> {"EV_REL"}]

\* a keyboard with a pointing stick: key events and relative motion
ComboA == [Fn |-> "/dev/input/event3", Name |-> <<"T">>,
           Capabilities |-> {"EV_KEY", "EV_REL"}]

AllInputDevices == {KeyboardA, KeyboardB, MouseA, ComboA}

\* devId := InputDevice{Device: dev.Fn, Name: dev.Name}
DevId(dev) == [Device |-> dev.Fn, Name |-> dev.Name]

DevIds == {DevId(dev) : dev \in AllInputDevices}

\* the evdev device of an identity
DeviceOf(id) == CHOOSE dev \in AllInputDevices : DevId(dev) = id

\* isMouse, isKeyboard
IsMouse(dev) == "EV_REL" \in dev.Capabilities
IsKeyboard(dev) == "EV_KEY" \in dev.Capabilities

(***************************************************************************)
(* State                                                                   *)
(***************************************************************************)
VARIABLES
  alive,          \* the process runs (log.Fatal has not exited it)
  flags,          \* the command line flags read by main()
  clock,          \* hrtime.Now()
  hpc,            \* per identity: where its capture handler goroutine is
  loop,           \* per identity: the handler's loop counter
  keysDown,       \* per identity: keysDown of HandleKeyboard
  buttons,        \* per identity: buttons of HandleMouse
  grabbed,        \* the identities whose device is grabbed (dev.Grab)
  releasePending, \* identities whose returned handler has yet to run
                  \* its deferred dev.Release()
  keyboardInput,  \* chan InputMessage, capacity 10
  mouseInput,     \* chan InputMessage, capacity 100
  output,         \* map[InputDevice]chan error
  close,          \* map[InputDevice]chan bool
  wpc,            \* per report class: where its writer goroutine is
  spc,            \* where main()'s loop is
  present,        \* what evdev.ListInputDevices() returns now
  udevCh,         \* udev notifications not yet received by main()
  bluez,          \* what the BlueZ adapter answers now
  delivers,       \* per identity: the events its device can deliver
  gadget,         \* the gadget configuration tree and where SetupUSBGadget is
  variant,        \* which main() runs: "monitor" (src/unnamed/part_000) or
                  \* "poll" (src/cmd/go-hidproxy/main.go)
  \* history variables
  history,        \* which history is kept: "reports" (lastEvent, physDown,
                  \* lastReport, prevReport) or "queues" (enqLog, wrLog)
  enqLog,         \* per class: every message enqueued, with its producer
  wrLog,          \* per class: every message written to the gadget node
  wstat,          \* per class: avg, min and max of its writer, kept where
                  \* history is "latency"
  latencies,      \* per class: the latency of every message written, kept
                  \* where history is "latency"
  lastEvent,      \* per identity: the event its handler read last
  physDown,       \* per identity: the scancodes pressed and not released
  lastReport,     \* per identity: the report its handler enqueued last
  prevReport,     \* per identity: the report it enqueued before that one
  observed,       \* per identity: its handler has received from close
  outcomes,       \* per identity: what its handler has sent on output
  pendingReads,   \* per identity: the events its handler has read, and the
                  \* reports it has enqueued, with a signal waiting in close
  signalLog       \* per identity, kept where history is "signals": the
                  \* signals sent on close since its handler was started,
                  \* and those unread in the channel the start replaced

hvars == <<hpc, loop, keysDown, buttons, grabbed, releasePending>>
chvars == <<keyboardInput, mouseInput, output, close>>
sysvars == <<gadget, variant>>
envvars == <<flags, clock, present, udevCh, bluez, delivers, sysvars>>
histvars == <<history, enqLog, wrLog, wstat, latencies, lastEvent, physDown,
              lastReport,
              prevReport, observed, outcomes, pendingReads, signalLog>>
vars == <<alive, hvars, chvars, wpc, spc, envvars, histvars>>

Classes == {"keyboard", "mouse"}

\* no channel: the map has no entry for the identity. A channel is a
\* sequence; this value is a function that is no sequence, so it differs
\* from every channel
NoChan == [i \in {0} |-> "nochan"]

\* no report yet
NoReport == <<>>
NoEvent == [Type |-> -1, Code |-> 0, Value |-> 0]

\* what the history holds for a read that ended in "i/o timeout"
TimedOut == [Type |-> -2, Code |-> 0, Value |-> 0]

\* the value nil of an error
Nil == "nil"

\* output[devId] exists
Tracked(id) == output[id] # NoChan

\* if isKeyboard && !isMouse && *setupKeyboard { go HandleKeyboard(...) }
StartsKeyboard(dev) == IsKeyboard(dev) /\ ~IsMouse(dev) /\ flags.setupKeyboard

\* if isMouse && *setupMouse { go HandleMouse(...) }
StartsMouse(dev) == IsMouse(dev) /\ flags.setupMouse

\* which handler main() starts for a device
HandlerKind(dev) ==
  IF StartsKeyboard(dev) THEN "keyboard"
  ELSE IF StartsMouse(dev) THEN "mouse"
  ELSE "none"

(***************************************************************************)
(* log.Fatal: logrus logs the entry and calls os.Exit(1); the statements   *)
(* after it never run                                                      *)
(***************************************************************************)
Fatal == alive' = FALSE

\* log.Fatal in the handler of id: the handler is in it when the process
\* exits, it has not reached the send on output that follows
HandlerFatal(id) ==
  /\ Fatal
  /\ hpc' = [hpc EXCEPT ![id] = "fatal"]
  /\ UNCHANGED <<loop, keysDown, buttons, grabbed, releasePending, chvars,
                 wpc, spc, envvars, histvars>>

\* log.Fatal in the writer of class c
WriterFatal(c) ==
  /\ Fatal
  /\ wpc' = [wpc EXCEPT ![c] = "fatal"]
  /\ UNCHANGED <<hvars, spc, envvars, histvars>>

(***************************************************************************)
(* Gadget provisioning: SetupUSBGadget                                     *)
(***************************************************************************)
\* var paths
GadgetPaths ==
  <<"/sys/kernel/config/usb_gadget/piproxy",
    "/sys/kernel/config/usb_gadget/piproxy/strings/0x409",
    "/sys/kernel/config/usb_gadget/piproxy/configs/c.1/strings/0x409",
    "/sys/kernel/config/usb_gadget/piproxy/functions/hid.usb0",
    "/sys/kernel/config/usb_gadget/piproxy/functions/hid.usb1">>

\* filesStr, in the order of its Set calls; a value is its characters
FilesStr ==
  <<[path |-> "/sys/kernel/config/usb_gadget/piproxy/idVendor",
     value |-> <<"0", "x", "1", "d", "6", "b">>],
    [path |-> "/sys/kernel/config/usb_gadget/piproxy/idProduct",
     value |-> <<"0", "x", "0", "1", "0", "4">>],
    [path |-> "/sys/kernel/config/usb_gadget/piproxy/bcdDevice",
     value |-> <<"0", "x", "0", "1", "0", "0">>],
    [path |-> "/sys/kernel/config/usb_gadget/piproxy/bcdUSB",
     value |-> <<"0", "x", "0", "2", "0", "0">>],
    [path |-> "/sys/kernel/config/usb_gadget/piproxy/strings/0x409/serialnumber",
     value |-> <<"f", "e", "d", "c", "b", "a", "9", "8", "7", "6", "5",
               "4", "3", "2", "1", "0">>],
    [path |-> "/sys/kernel/config/usb_gadget/piproxy/strings/0x409/manufacturer",
     value |-> <<"R", "a", "s", "p", "b", "e", "r", "r", "y", " ", "P", "i">>],
    [path |-> "/sys/kernel/config/usb_gadget/piproxy/strings/0x409/product",
     value |-> <<"p", "i", "z", "e", "r", "o", " ", "k", "e", "y", "b",
               "o", "a", "r", "d", " ", "D", "e", "v", "i", "c", "e">>],
    [path |-> "/sys/kernel/config/usb_gadget/piproxy/configs/c.1/strings/0x409/configuration",
     value |-> <<"C", "o", "n", "f", "i", "g", " ", "1", ":", " ", "E",
               "C", "M", " ", "n", "e", "t", "w", "o", "r", "k">>],
    [path |-> "/sys/kernel/config/usb_gadget/piproxy/configs/c.1/MaxPower",
     value |-> <<"2", "5", "0">>],
    [path |-> "/sys/kernel/config/usb_gadget/piproxy/functions/hid.usb0/protocol",
     value |-> <<"1">>],
    [path |-> "/sys/kernel/config/usb_gadget/piproxy/functions/hid.usb0/subclass",
     value |-> <<"1">>],
    [path |-> "/sys/kernel/config/usb_gadget/piproxy/functions/hid.usb0/report_length",
     value |-> <<"8">>],
    [path |-> "/sys/kernel/config/usb_gadget/piproxy/functions/hid.usb1/protocol",
     value |-> <<"2">>],
    [path |-> "/sys/kernel/config/usb_gadget/piproxy/functions/hid.usb1/subclass",
     value |-> <<"1">>],
    [path |-> "/sys/kernel/config/usb_gadget/piproxy/functions/hid.usb1/report_length",
     value |-> <<"4">>]>>

\* filesBytes: the report descriptors of the keyboard and of the mouse
KeyboardReportDesc ==
  <<5, 1, 9, 6, 161, 1, 5, 7, 25, 224, 41, 231, 21, 0, 37, 1, 117, 1, 149,
    8, 129, 2, 149, 1, 117, 8, 129, 3, 149, 5, 117, 1, 5, 8, 25, 1, 41, 5,
    145, 2, 149, 1, 117, 3, 145, 3, 149, 6, 117, 8, 21, 0, 37, 101, 5, 7,
    25, 0, 41, 101, 129, 0, 192>>

MouseReportDesc ==
  <<5, 1, 9, 2, 161, 1, 9, 1, 161, 0, 5, 9, 25, 1, 41, 5, 21, 0, 37, 1,
    149, 5, 117, 1, 129, 2, 149, 1, 117, 3, 129, 1, 5, 1, 9, 48, 9, 49, 9,
    56, 21, 129, 37, 127, 117, 8, 149, 3, 129, 6, 192, 192>>

FilesBytes ==
  {[path |-> "/sys/kernel/config/usb_gadget/piproxy/functions/hid.usb0/report_desc",
    contents |-> KeyboardReportDesc],
   [path |-> "/sys/kernel/config/usb_gadget/piproxy/functions/hid.usb1/report_desc",
    contents |-> MouseReportDesc]}

\* symlinks: source -> target
Symlinks ==
  {[source |-> "/sys/kernel/config/usb_gadget/piproxy/functions/hid.usb0",
    target |-> "/sys/kernel/config/usb_gadget/piproxy/configs/c.1/hid.usb0"],
   [source |-> "/sys/kernel/config/usb_gadget/piproxy/functions/hid.usb1",
    target |-> "/sys/kernel/config/usb_gadget/piproxy/configs/c.1/hid.usb1"]}

\* udcFile
UdcFile == "/sys/kernel/config/usb_gadget/piproxy/UDC"

\* the files SetupUSBGadget reads and writes
StrPaths == {FilesStr[i].path : i \in 1..Len(FilesStr)}
BytesPaths == {f.path : f \in FilesBytes}
GadgetFiles == StrPaths \cup BytesPaths \cup {UdcFile}

\* ioutil.ReadFile in the configuration tree: an attribute reads as what
\* it holds followed by a newline, a report descriptor as its bytes
ReadFile(files, path) ==
  IF path \in BytesPaths THEN files[path] ELSE files[path] \o <<"\n">>

\* content[0:len(content)-1]
ButLast(content) == SubSeq(content, 1, Len(content) - 1)

\* StringUpToDate comparing the whole content
StringUpToDateWholeContent(content, value) == content = value

\* bytes.Compare(content[0:len(content)-1], []byte(value)) == 0
StringUpToDate(content, value) == ButLast(content) = value

\* strings.TrimSpace, the space being the only white space here
RECURSIVE TrimSpace(_)
TrimSpace(str) ==
  IF str = <<>> THEN str
  ELSE IF Head(str) = " " THEN TrimSpace(Tail(str))
  ELSE IF str[Len(str)] = " " THEN TrimSpace(ButLast(str))
  ELSE str

\* udc = udc + filepath.Base(match) + " " over the sorted matches
RECURSIVE UdcNames(_)
UdcNames(matches) ==
  IF matches = <<>> THEN <<>>
  ELSE Head(matches) \o <<" ">> \o UdcNames(Tail(matches))

\* an operation on the tree in the run of SetupUSBGadget that is going on
GadgetOp(kind, path, ok) ==
  [gadget EXCEPT !.ops[gadget.run] =
     @ \cup {[kind |-> kind, path |-> path, ok |-> ok]}]

\* the variables SetupUSBGadget leaves alone
notgadget == <<hvars, chvars, wpc, spc, flags, clock, present, udevCh,
               bluez, delivers, variant, histvars>>

\* one iteration of the loop over paths: os.Stat, os.MkdirAll
SetupPath ==
  /\ alive
  /\ gadget.pc = "paths"
  /\ LET path == GadgetPaths[gadget.i]
         next == IF gadget.i = Len(GadgetPaths)
                 THEN [pc |-> "strings", i |-> 1]
                 ELSE [pc |-> "paths", i |-> gadget.i + 1]
     IN IF path \in gadget.dirs
        THEN /\ gadget' = [gadget EXCEPT !.pc = next.pc, !.i = next.i]
             /\ UNCHANGED alive
        ELSE \/ /\ gadget' = [GadgetOp("mkdir", path, TRUE) EXCEPT
                                !.pc = next.pc, !.i = next.i,
                                !.dirs = @ \cup {path}]
                /\ UNCHANGED alive
             \/ /\ gadget' = [GadgetOp("mkdir", path, FALSE) EXCEPT
                                !.pc = "fatal"]
                /\ Fatal
  /\ UNCHANGED notgadget

\* one iteration of the loop over filesStr: ReadFile, compare, WriteFile
SetupString ==
  /\ alive
  /\ gadget.pc = "strings"
  /\ LET pair == FilesStr[gadget.i]
         next == IF gadget.i = Len(FilesStr)
                 THEN [pc |-> "bytes", i |-> 1]
                 ELSE [pc |-> "strings", i |-> gadget.i + 1]
     IN IF StringUpToDate(ReadFile(gadget.files, pair.path), pair.value)
        THEN gadget' = [gadget EXCEPT !.pc = next.pc, !.i = next.i,
                                      !.todo = BytesPaths]
        ELSE gadget' = [GadgetOp("write", pair.path, ~gadget.busy) EXCEPT
                          !.pc = next.pc, !.i = next.i, !.todo = BytesPaths,
                          !.files[pair.path] =
                            IF gadget.busy THEN @ ELSE pair.value]
  /\ UNCHANGED <<alive, notgadget>>

\* one iteration of the loop over filesBytes, a map: any file not yet done
SetupBytes ==
  /\ alive
  /\ gadget.pc = "bytes"
  /\ \E f \in FilesBytes :
       /\ f.path \in gadget.todo
       /\ LET pc == IF gadget.todo = {f.path} THEN "symlinks" ELSE "bytes"
              todo == IF gadget.todo = {f.path}
                      THEN {l.target : l \in Symlinks}
                      ELSE gadget.todo \ {f.path}
          IN IF ReadFile(gadget.files, f.path) = f.contents
             THEN gadget' = [gadget EXCEPT !.pc = pc, !.todo = todo]
             ELSE gadget' = [GadgetOp("write", f.path, ~gadget.busy) EXCEPT
                               !.pc = pc, !.todo = todo,
                               !.files[f.path] =
                                 IF gadget.busy THEN @ ELSE f.contents]
  /\ UNCHANGED <<alive, notgadget>>

\* one iteration of the loop over symlinks, a map: os.Stat, os.Symlink
SetupSymlink ==
  /\ alive
  /\ gadget.pc = "symlinks"
  /\ \E l \in Symlinks :
       /\ l.target \in gadget.todo
       /\ LET todo == gadget.todo \ {l.target}
              pc == IF todo = {} THEN "udc" ELSE "symlinks"
          IN IF l.target \in gadget.links
             THEN /\ gadget' = [gadget EXCEPT !.pc = pc, !.todo = todo]
                  /\ UNCHANGED alive
             ELSE \/ /\ gadget' = [GadgetOp("symlink", l.target, TRUE) EXCEPT
                                     !.pc = pc, !.todo = todo,
                                     !.links = @ \cup {l.target}]
                     /\ UNCHANGED alive
                  \/ /\ gadget' = [GadgetOp("symlink", l.target, FALSE) EXCEPT
                                     !.pc = "fatal"]
                     /\ Fatal
  /\ UNCHANGED notgadget

\* the binding to the controllers of /sys/class/udc
SetupUDC ==
  /\ alive
  /\ gadget.pc = "udc"
  /\ LET udc == TrimSpace(UdcNames(gadget.controllers))
     IN IF ButLast(ReadFile(gadget.files, UdcFile)) # udc
        THEN gadget' = [GadgetOp("write", UdcFile, ~gadget.busy) EXCEPT
                          !.pc = "done",
                          !.files[UdcFile] = IF gadget.busy THEN @ ELSE udc]
        ELSE gadget' = [gadget EXCEPT !.pc = "done"]
  /\ UNCHANGED <<alive, notgadget>>

\* SetupUSBGadget runs once more: the process was started again
SetupAgain ==
  /\ alive
  /\ gadget.pc = "done"
  /\ gadget.run = 1
  /\ gadget' = [gadget EXCEPT !.pc = "paths", !.i = 1, !.run = 2]
  /\ UNCHANGED <<alive, notgadget>>

\* the tree when SetupUSBGadget has run on it, bound to controller u0
ProvisionedFiles ==
  [path \in GadgetFiles |->
     IF path = UdcFile THEN <<"u", "0">>
     ELSE IF path \in BytesPaths
          THEN (CHOOSE f \in FilesBytes : f.path = path).contents
          ELSE FilesStr[CHOOSE i \in 1..Len(FilesStr) :
                          FilesStr[i].path = path].value]

\* SetupUSBGadget has returned
Provisioned ==
  [pc |-> "done", i |-> 1, todo |-> {},
   dirs |-> {GadgetPaths[i] : i \in 1..Len(GadgetPaths)},
   files |-> ProvisionedFiles,
   links |-> {l.target : l \in Symlinks},
   controllers |-> <<<<"u", "0">>>>,
   busy |-> TRUE, run |-> 1, ops |-> <<{}, {}>>]

(***************************************************************************)
(* Capture handlers                                                        *)
(***************************************************************************)
\* dev.Grab() at the start of HandleKeyboard / HandleMouse
HandlerGrab(id) ==
  /\ alive
  /\ hpc[id] = "grab"
  /\ IF id \in grabbed \/ DeviceOf(id) \notin present
     THEN HandlerFatal(id)
     ELSE /\ grabbed' = grabbed \cup {id}
          /\ hpc' = [hpc EXCEPT ![id] = "stream"]
          /\ keysDown' = [keysDown EXCEPT ![id] = <<>>]
          /\ buttons' = [buttons EXCEPT ![id] = 0]
          /\ loop' = [loop EXCEPT ![id] = 0]
          /\ UNCHANGED <<alive, releasePending, chvars, wpc, spc, envvars,
                         histvars>>

\* dev.File.SetReadDeadline fails
SetReadDeadlineError(id) ==
  /\ alive
  /\ hpc[id] = "stream"
  /\ HandlerFatal(id)

\* the history of a read that ended in a timeout
LogTimeout(id) ==
  /\ lastEvent' = IF history = "reports"
                  THEN [lastEvent EXCEPT ![id] = TimedOut]
                  ELSE lastEvent
  /\ UNCHANGED <<history, enqLog, wrLog, wstat, latencies, physDown,
                 lastReport, prevReport,
                 observed, outcomes, pendingReads, signalLog>>

\* ReadTimeout with the timeout taken for an error
ReadTimeoutAsError(id) ==
  /\ alive
  /\ hpc[id] = "stream"
  /\ Fatal
  /\ hpc' = [hpc EXCEPT ![id] = "fatal"]
  /\ LogTimeout(id)
  /\ UNCHANGED <<loop, keysDown, buttons, grabbed, releasePending, chvars,
                 wpc, spc, envvars>>

\* dev.ReadOne() ends in "i/o timeout": continue
ReadTimeout(id) ==
  /\ alive
  /\ hpc[id] = "stream"
  /\ LogTimeout(id)
  /\ UNCHANGED <<alive, hvars, chvars, wpc, spc, envvars>>

\* dev.ReadOne() fails with another error
ReadError(id) ==
  /\ alive
  /\ hpc[id] = "stream"
  /\ HandlerFatal(id)

\* CancelObserved without the send and the return
CancelObservedKeepsRunning(id) ==
  /\ close' = [close EXCEPT ![id] = Tail(@)]
  /\ loop' = [loop EXCEPT ![id] = 0]
  /\ observed' = [observed EXCEPT ![id] = TRUE]
  /\ UNCHANGED <<output, hpc, releasePending, outcomes>>

\* the select on close after the event was handled: its case sends nil on
\* output and returns; output has room, the send does not block
CancelObserved(id) ==
  /\ close' = [close EXCEPT ![id] = Tail(@)]
  /\ output' = [output EXCEPT ![id] = Append(@, Nil)]
  /\ hpc' = [hpc EXCEPT ![id] = "done"]
  /\ releasePending' = [releasePending EXCEPT ![id] = TRUE]
  /\ observed' = [observed EXCEPT ![id] = TRUE]
  /\ outcomes' = [outcomes EXCEPT ![id] = Append(@, Nil)]
  /\ UNCHANGED loop

\* Checkpoint with the select after every 5th event
CheckpointEveryFifth(id) ==
  IF loop[id] + 1 > LoopLimit + 1
  THEN IF close[id] # <<>>
       THEN CancelObserved(id)
       ELSE /\ loop' = [loop EXCEPT ![id] = 0]
            /\ UNCHANGED <<close, output, hpc, releasePending, observed,
                           outcomes>>
  ELSE /\ loop' = [loop EXCEPT ![id] = loop[id] + 1]
       /\ UNCHANGED <<close, output, hpc, releasePending, observed,
                      outcomes>>

\* loop += 1; if loop > 3 { select { case <-close: ... default: }; loop = 0 }
Checkpoint(id) ==
  IF loop[id] + 1 > LoopLimit
  THEN IF close[id] # <<>>
       THEN CancelObserved(id)
       ELSE /\ loop' = [loop EXCEPT ![id] = 0]
            /\ UNCHANGED <<close, output, hpc, releasePending, observed,
                           outcomes>>
  ELSE /\ loop' = [loop EXCEPT ![id] = loop[id] + 1]
       /\ UNCHANGED <<close, output, hpc, releasePending, observed,
                      outcomes>>

\* the signal history of an identity no handler was started for
NoSignals == [sent |-> 0, unread |-> 0]

\* the history of an enqueue by handler id on the queue of class c
LogEnqueue(id, c, msg) ==
  /\ lastReport' = IF history = "reports"
                   THEN [lastReport EXCEPT ![id] = msg.Message]
                   ELSE lastReport
  /\ prevReport' = IF history = "reports"
                   THEN [prevReport EXCEPT ![id] = lastReport[id]]
                   ELSE prevReport
  /\ enqLog' = IF history = "queues"
               THEN [enqLog EXCEPT ![c] = Append(@, [dev |-> id, msg |-> msg])]
               ELSE enqLog

\* the history of an event read by handler id; sends tells whether the
\* handler enqueues a report for it
LogEvent(id, ev, sends) ==
  /\ pendingReads' =
       IF close[id] # <<>>
       THEN [pendingReads EXCEPT ![id] =
               [reads |-> @.reads + 1,
                reports |-> @.reports + (IF sends THEN 1 ELSE 0)]]
       ELSE pendingReads
  /\ IF history = "reports"
     THEN /\ lastEvent' = [lastEvent EXCEPT ![id] = ev]
          /\ physDown' = [physDown EXCEPT ![id] =
                            IF ev.Type = EV_KEY /\ ev.Value = 1 THEN @ \cup {ev.Code}
                            ELSE IF ev.Type = EV_KEY /\ ev.Value = 0 THEN @ \ {ev.Code}
                            ELSE @]
     ELSE UNCHANGED <<lastEvent, physDown>>

\* CanSend for a queue without bound
CanSendAlways(queue, capacity) == TRUE

\* input <- msg goes through when the buffer of the channel has room;
\* the handler waits in the send otherwise
CanSend(queue, capacity) == Len(queue) < capacity

\* the key event is one HandleKeyboard rebuilds and sends a report for
KnownKey(ev) == ev.Type = EV_KEY /\ ev.Code \in DOMAIN Scancodes

\* one iteration of the loop of HandleKeyboard in which ReadOne returns ev
KeyboardEvent(id, ev) ==
  /\ alive
  /\ hpc[id] = "stream"
  /\ HandlerKind(DeviceOf(id)) = "keyboard"
  /\ IF KnownKey(ev)
     THEN LET keys == UpdateKeysDown(keysDown[id], Scancodes[ev.Code], ev.Value)
              msg == [Message |-> KeyboardReport(keys), Timestamp |-> clock]
          IN /\ CanSend(keyboardInput, KeyboardQueueCap)
             /\ keysDown' = [keysDown EXCEPT ![id] = keys]
             /\ keyboardInput' = Append(keyboardInput, msg)
             /\ LogEnqueue(id, "keyboard", msg)
     ELSE UNCHANGED <<keysDown, keyboardInput, lastReport, prevReport, enqLog>>
  /\ LogEvent(id, ev, KnownKey(ev))
  /\ Checkpoint(id)
  /\ UNCHANGED <<alive, buttons, grabbed, mouseInput, wpc, spc, envvars,
                 history, wrLog, wstat, latencies, signalLog>>

\* one iteration of the loop of HandleMouse in which ReadOne returns ev
MouseEvent(id, ev) ==
  /\ alive
  /\ hpc[id] = "stream"
  /\ HandlerKind(DeviceOf(id)) = "mouse"
  /\ buttons' = [buttons EXCEPT ![id] = UpdateButtons(@, ev)]
  /\ IF MouseSends(ev)
     THEN LET msg == [Message |-> MouseReport(UpdateButtons(buttons[id], ev), ev),
                      Timestamp |-> clock]
          IN /\ CanSend(mouseInput, MouseQueueCap)
             /\ mouseInput' = Append(mouseInput, msg)
             /\ LogEnqueue(id, "mouse", msg)
     ELSE UNCHANGED <<mouseInput, lastReport, prevReport, enqLog>>
  /\ LogEvent(id, ev, MouseSends(ev))
  /\ Checkpoint(id)
  /\ UNCHANGED <<alive, keysDown, grabbed, keyboardInput, wpc, spc, envvars,
                 history, wrLog, wstat, latencies, signalLog>>

\* defer dev.Release() of a handler that returned
HandlerRelease(id) ==
  /\ alive
  /\ releasePending[id]
  /\ releasePending' = [releasePending EXCEPT ![id] = FALSE]
  /\ grabbed' = grabbed \ {id}
  /\ UNCHANGED <<alive, hpc, loop, keysDown, buttons, chvars, wpc, spc,
                 envvars, histvars>>

(***************************************************************************)
(* Report writers                                                          *)
(***************************************************************************)
\* var avg, min, max, loop int64 = 0, 0, 0, 0
NoStats == [avg |-> 0, min |-> 0, max |-> 0]

\* the statistics of a writer after a write of this latency
UpdateStats(s, latency) ==
  [min |-> IF latency < s.min THEN latency ELSE s.min,
   max |-> IF latency > s.max THEN latency ELSE s.max,
   avg |-> (s.avg + latency) \div 2]

\* the write of msg on the gadget node of class c: its history, and the
\* statistics of the writer, the latency being hrtime.Since(msg.Timestamp)
LogWrite(c, msg) ==
  LET latency == clock - msg.Timestamp
  IN /\ wrLog' = IF history = "queues"
                 THEN [wrLog EXCEPT ![c] = Append(@, msg)]
                 ELSE wrLog
     /\ wstat' = IF history = "latency"
                 THEN [wstat EXCEPT ![c] = UpdateStats(@, latency)]
                 ELSE wstat
     /\ latencies' = IF history = "latency"
                     THEN [latencies EXCEPT ![c] = Append(@, latency)]
                     ELSE latencies

\* os.OpenFile of the gadget node at the start of a writer
WriterOpen(c) ==
  /\ alive
  /\ wpc[c] = "open"
  /\ wpc' = [wpc EXCEPT ![c] = "run"]
  /\ UNCHANGED <<alive, hvars, chvars, spc, envvars, histvars>>

\* os.OpenFile fails
WriterOpenError(c) ==
  /\ alive
  /\ wpc[c] = "open"
  /\ WriterFatal(c)
  /\ UNCHANGED chvars

\* SendKeyboardReports receiving the newest message of the queue
SendKeyboardReportsNewestFirst ==
  /\ alive
  /\ wpc["keyboard"] = "run"
  /\ keyboardInput # <<>>
  /\ keyboardInput' = SubSeq(keyboardInput, 1, Len(keyboardInput) - 1)
  /\ LogWrite("keyboard", keyboardInput[Len(keyboardInput)])
  /\ UNCHANGED <<alive, hvars, mouseInput, output, close, wpc, spc, envvars,
                 history, enqLog, lastEvent, physDown, lastReport,
                 prevReport, observed, outcomes, pendingReads, signalLog>>

\* one iteration of SendKeyboardReports: msg := <-input; file.Write
SendKeyboardReports ==
  /\ alive
  /\ wpc["keyboard"] = "run"
  /\ keyboardInput # <<>>
  /\ keyboardInput' = Tail(keyboardInput)
  /\ LogWrite("keyboard", Head(keyboardInput))
  /\ UNCHANGED <<alive, hvars, mouseInput, output, close, wpc, spc, envvars,
                 history, enqLog, lastEvent, physDown, lastReport,
                 prevReport, observed, outcomes, pendingReads, signalLog>>

\* one iteration of SendMouseReports
SendMouseReports ==
  /\ alive
  /\ wpc["mouse"] = "run"
  /\ mouseInput # <<>>
  /\ mouseInput' = Tail(mouseInput)
  /\ LogWrite("mouse", Head(mouseInput))
  /\ UNCHANGED <<alive, hvars, keyboardInput, output, close, wpc, spc,
                 envvars, history, enqLog, lastEvent, physDown, lastReport,
                 prevReport, observed, outcomes, pendingReads, signalLog>>

\* file.Write fails in a writer: the message was received from the queue
KeyboardWriteError ==
  /\ alive
  /\ wpc["keyboard"] = "run"
  /\ keyboardInput # <<>>
  /\ keyboardInput' = Tail(keyboardInput)
  /\ WriterFatal("keyboard")
  /\ UNCHANGED <<mouseInput, output, close>>

MouseWriteError ==
  /\ alive
  /\ wpc["mouse"] = "run"
  /\ mouseInput # <<>>
  /\ mouseInput' = Tail(mouseInput)
  /\ WriterFatal("mouse")
  /\ UNCHANGED <<keyboardInput, output, close>>

(***************************************************************************)
(* The supervisor: the loop of main()                                      *)
(***************************************************************************)
\* strings.HasPrefix(s, prefix)
HasPrefixWholeName(s, prefix) == s = prefix

\* strings.HasPrefix
HasPrefix(s, prefix) ==
  /\ Len(prefix) <= Len(s)
  /\ SubSeq(s, 1, Len(prefix)) = prefix

\* the name GetDisconnectedDevices uses for a BlueZ device
BluezName(d) == IF d.NameErr THEN <<"?">> ELSE d.Name

\* the lists disconnected (conn = FALSE) and connected (conn = TRUE): a
\* device whose address or connected state cannot be read is in neither
Listed(devices, conn) ==
  LET ok == SelectSeq(devices, LAMBDA d : /\ ~d.AddressErr
                                          /\ ~d.ConnectedErr
                                          /\ d.Connected = conn)
  IN [i \in 1..Len(ok) |-> BluezName(ok[i])]

\* AppendResults without the test of inResults
RECURSIVE AppendResultsWithRepeats(_, _, _)
AppendResultsWithRepeats(results, disconnected, connected) ==
  IF disconnected = <<>> THEN results
  ELSE LET dname == Head(disconnected)
           ok == \A i \in 1..Len(connected) : connected[i] # dname
       IN AppendResultsWithRepeats(IF ok THEN Append(results, dname)
                                         ELSE results,
                                   Tail(disconnected), connected)

\* the loop that builds results: a disconnected name goes in unless it is a
\* connected name or already in
RECURSIVE AppendResults(_, _, _)
AppendResults(results, disconnected, connected) ==
  IF disconnected = <<>> THEN results
  ELSE LET dname == Head(disconnected)
           ok == \A i \in 1..Len(connected) : connected[i] # dname
           inResults == \E i \in 1..Len(results) : results[i] = dname
       IN AppendResults(IF ok /\ ~inResults THEN Append(results, dname)
                                            ELSE results,
                        Tail(disconnected), connected)

\* GetDisconnectedDevices when the adapter and its device list can be read
GetDisconnectedDevices(devices) ==
  AppendResults(<<>>, Listed(devices, FALSE), Listed(devices, TRUE))

\* how many names of disconnected are a prefix of the name of id
SignalsFor(id, disconnected) ==
  Cardinality({i \in 1..Len(disconnected) : HasPrefix(id.Name, disconnected[i])})

\* n times select { case close[devId] <- true: default: }
SendSignals(ch, n) ==
  LET room == CloseCap - Len(ch)
  IN ch \o [i \in 1..(IF n < room THEN n ELSE room) |-> TRUE]

\* main() after SetupUSBGadget: it makes the queues and the maps, starts
\* the two writers and enters its loop
MainStart ==
  /\ alive
  /\ spc = "setup"
  /\ gadget.pc = "done"
  /\ spc' = IF variant = "monitor" THEN "select" ELSE "enumerate"
  /\ wpc' = [c \in Classes |-> "open"]
  /\ UNCHANGED <<alive, hvars, chvars, envvars, histvars>>

\* the history of the signals main() sends in this step
LogSignals ==
  signalLog' =
    IF history = "signals"
    THEN [id \in DevIds |->
            IF Tracked(id)
            THEN [signalLog[id] EXCEPT
                    !.sent = @ + Len(close'[id]) - Len(close[id])]
            ELSE signalLog[id]]
    ELSE signalLog

\* the select on udevCh at the top of the loop of main()
UdevSelect ==
  /\ alive
  /\ spc = "select"
  /\ spc' = "enumerate"
  /\ IF flags.monitorUdev /\ udevCh # <<>>
     THEN /\ udevCh' = Tail(udevCh)
          /\ IF Head(udevCh) \in {"add", "remove"} /\ ~bluez.Err
             THEN close' = [id \in DevIds |->
                              IF Tracked(id)
                              THEN SendSignals(close[id],
                                     SignalsFor(id, GetDisconnectedDevices(bluez.Devices)))
                              ELSE close[id]]
             ELSE UNCHANGED close
     ELSE UNCHANGED <<udevCh, close>>
  /\ LogSignals
  /\ UNCHANGED <<alive, hvars, keyboardInput, mouseInput, output, wpc, flags,
                 clock, present, bluez, delivers, sysvars, history, enqLog,
                 wrLog, wstat, latencies, lastEvent, physDown, lastReport,
                 prevReport, observed, outcomes, pendingReads>>

\* the identities main() does not track among the devices ListInputDevices
\* returns with EV_KEY or EV_REL
NewDevIds ==
  {DevId(dev) : dev \in {d \in present : IsKeyboard(d) \/ IsMouse(d)}}
    \ {id \in DevIds : Tracked(id)}

\* the close map with every identity newly tracked keeping the channel its
\* entry held
NewCloseKeepsSignals ==
  [id \in DevIds |->
     IF id \in NewDevIds /\ close[id] = NoChan THEN <<>> ELSE close[id]]

\* the close map after close[devId] = make(chan bool, 10) for every
\* identity newly tracked
NewClose ==
  [id \in DevIds |-> IF id \in NewDevIds THEN <<>> ELSE close[id]]

\* the history of a start: what the channels replaced held
LogStart ==
  signalLog' =
    IF history = "signals"
    THEN [id \in DevIds |->
            IF id \in NewDevIds
            THEN [sent |-> 0,
                  unread |-> IF close[id] = NoChan THEN 0 ELSE Len(close[id])]
            ELSE signalLog[id]]
    ELSE signalLog

\* the loop over evdev.ListInputDevices(): fresh channels and a handler for
\* every identity not tracked
StartHandlers ==
  /\ alive
  /\ spc = "enumerate"
  /\ spc' = "reap"
  /\ output' = [id \in DevIds |-> IF id \in NewDevIds THEN <<>> ELSE output[id]]
  /\ close' = NewClose
  /\ LogStart
  /\ hpc' = [id \in DevIds |->
               IF id \in NewDevIds /\ HandlerKind(DeviceOf(id)) # "none"
               THEN "grab" ELSE hpc[id]]
  /\ observed' = [id \in DevIds |-> IF id \in NewDevIds THEN FALSE
                                                        ELSE observed[id]]
  /\ outcomes' = [id \in DevIds |-> IF id \in NewDevIds THEN <<>>
                                                        ELSE outcomes[id]]
  /\ pendingReads' = [id \in DevIds |->
                        IF id \in NewDevIds THEN [reads |-> 0, reports |-> 0]
                                             ELSE pendingReads[id]]
  /\ UNCHANGED <<alive, loop, keysDown, buttons, grabbed, releasePending,
                 keyboardInput, mouseInput, wpc, envvars, history, enqLog,
                 wrLog, wstat, latencies, lastEvent, physDown, lastReport,
                 prevReport>>

\* Reap without delete(output, id)
ReapKeepsRecord ==
  /\ alive
  /\ variant = "monitor"
  /\ spc = "reap"
  /\ spc' = "select"
  /\ output' = [id \in DevIds |->
                  IF Tracked(id) /\ output[id] # <<>> THEN Tail(output[id])
                                                      ELSE output[id]]
  /\ UNCHANGED <<alive, hvars, keyboardInput, mouseInput, close, wpc, envvars,
                 histvars>>

\* after the sleep: the loop over output with its non-blocking receive
Reap ==
  /\ alive
  /\ variant = "monitor"
  /\ spc = "reap"
  /\ spc' = "select"
  /\ output' = [id \in DevIds |->
                  IF Tracked(id) /\ output[id] # <<>> THEN NoChan
                                                      ELSE output[id]]
  /\ UNCHANGED <<alive, hvars, keyboardInput, mouseInput, close, wpc, envvars,
                 histvars>>

\* after the sleep in src/cmd/go-hidproxy/main.go: the loop over output
\* whose select has one case and no default; each receive waits for the
\* handler's outcome
ReapBlocking ==
  /\ alive
  /\ variant = "poll"
  /\ spc = "reap"
  /\ \A id \in DevIds : Tracked(id) => output[id] # <<>>
  /\ spc' = "enumerate"
  /\ output' = [id \in DevIds |-> NoChan]
  /\ UNCHANGED <<alive, hvars, keyboardInput, mouseInput, close, wpc, envvars,
                 histvars>>

(***************************************************************************)
(* The environment                                                         *)
(***************************************************************************)
\* the BlueZ device with this name, connected or not
BluezDevice(name, connected) ==
  [Name |-> name, NameErr |-> FALSE, AddressErr |-> FALSE,
   Connected |-> connected, ConnectedErr |-> FALSE]

\* the adapter's devices change to devices and udev reports action
UdevNotify(action, devices) ==
  /\ alive
  /\ flags.monitorUdev
  /\ udevCh = <<>>
  /\ udevCh' = <<action>>
  /\ bluez' = [bluez EXCEPT !.Devices = devices]
  /\ UNCHANGED <<alive, hvars, chvars, wpc, spc, flags, clock, present,
                 delivers, sysvars, histvars>>

\* the adapter's devices change to devices and udev reports action while
\* the monitor still holds notifications main() has not received
UdevNotifyQueued(action, devices, pending) ==
  /\ alive
  /\ flags.monitorUdev
  /\ Len(udevCh) < pending
  /\ udevCh' = Append(udevCh, action)
  /\ bluez' = [bluez EXCEPT !.Devices = devices]
  /\ UNCHANGED <<alive, hvars, chvars, wpc, spc, flags, clock, present,
                 delivers, sysvars, histvars>>

\* an input device appears in /dev/input
Plug(dev) ==
  /\ alive
  /\ dev \notin present
  /\ present' = present \cup {dev}
  /\ UNCHANGED <<alive, hvars, chvars, wpc, spc, flags, clock, udevCh, bluez,
                 delivers, sysvars, histvars>>

\* an input device disappears from /dev/input
Unplug(dev) ==
  /\ alive
  /\ dev \in present
  /\ present' = present \ {dev}
  /\ UNCHANGED <<alive, hvars, chvars, wpc, spc, flags, clock, udevCh, bluez,
                 delivers, sysvars, histvars>>

\* hrtime.Now() advances
Tick ==
  /\ alive
  /\ clock' = clock + 1
  /\ UNCHANGED <<alive, hvars, chvars, wpc, spc, flags, present, udevCh,
                 bluez, delivers, sysvars, histvars>>

(***************************************************************************)
(* Initial states                                                          *)
(***************************************************************************)
\* the default flags
DefaultFlags == [setupKeyboard |-> TRUE, setupMouse |-> TRUE,
                 monitorUdev |-> TRUE]

\* an adapter that knows no devices
NoBluetooth == [Err |-> FALSE, Devices |-> <<>>]

\* the elements of a set of numbers in increasing order
RECURSIVE SortedSeq(_)
SortedSeq(S) ==
  IF S = {} THEN <<>>
  ELSE LET m == CHOOSE x \in S : \A y \in S : x <= y
       IN <<m>> \o SortedSeq(S \ {m})

\* main() has made its channels and started the writers; the handlers of
\* the identities `ids` have been started by main() and have grabbed
\* their devices; main() sleeps before it polls the outcome channels.
\* The scancodes `held`, of different usages, were pressed on every
\* keyboard of ids, in this order, and their reports were written.
Streaming(ids, held, hist) ==
  /\ alive = TRUE
  /\ flags = DefaultFlags
  /\ clock = 0
  /\ hpc = [id \in DevIds |-> IF id \in ids THEN "stream" ELSE "idle"]
  /\ loop = [id \in DevIds |-> IF id \in ids THEN Len(held) % (LoopLimit + 1)
                                             ELSE 0]
  /\ keysDown = [id \in DevIds |->
                   IF id \in ids THEN [i \in 1..Len(held) |-> Scancodes[held[i]]]
                                 ELSE <<>>]
  /\ buttons = [id \in DevIds |-> 0]
  /\ grabbed = ids
  /\ releasePending = [id \in DevIds |-> FALSE]
  /\ keyboardInput = <<>>
  /\ mouseInput = <<>>
  /\ output = [id \in DevIds |-> IF id \in ids THEN <<>> ELSE NoChan]
  /\ close = [id \in DevIds |-> IF id \in ids THEN <<>> ELSE NoChan]
  /\ wpc = [c \in Classes |-> "run"]
  /\ spc = "reap"
  /\ present = {DeviceOf(id) : id \in ids}
  /\ udevCh = <<>>
  /\ history = hist
  /\ enqLog = [c \in Classes |-> <<>>]
  /\ wrLog = [c \in Classes |-> <<>>]
  /\ wstat = [c \in Classes |-> NoStats]
  /\ latencies = [c \in Classes |-> <<>>]
  /\ lastEvent = [id \in DevIds |-> NoEvent]
  /\ physDown = [id \in DevIds |->
                   IF id \in ids THEN {held[i] : i \in 1..Len(held)} ELSE {}]
  /\ lastReport = [id \in DevIds |->
                     IF id \in ids /\ held # <<>>
                     THEN KeyboardReport(keysDown[id]) ELSE NoReport]
  /\ prevReport = [id \in DevIds |-> NoReport]
  /\ observed = [id \in DevIds |-> FALSE]
  /\ outcomes = [id \in DevIds |-> <<>>]
  /\ pendingReads = [id \in DevIds |-> [reads |-> 0, reports |-> 0]]
  /\ signalLog = [id \in DevIds |-> NoSignals]
  /\ gadget = Provisioned
  /\ variant = "monitor"

(***************************************************************************)
(* KeysSpec: one keyboard, idle or with a, b, c, d, e and f held. The keys *)
(* typed are a, the two scancodes of usage 49, left shift and a scancode   *)
(* the table does not know. A key is typed only when the writer has caught *)
(* up with the queue.                                                      *)
(***************************************************************************)
KeysScancodes == {30, 43, 86, 42, 240}

\* the events of a keyboard on which the scancodes S are typed: key up (0),
\* down (1) and repeat (2), and the EV_SYN that follows
KeyboardEvents(S) ==
  [Type : {EV_KEY}, Code : S, Value : {0, 1, 2}]
    \cup {[Type |-> EV_SYN, Code |-> 0, Value |-> 0]}

\* only the device of identity id delivers events, those of E
OnlyDelivers(id, E) == [i \in DevIds |-> IF i = id THEN E ELSE {}]

KeysInit ==
  /\ bluez = NoBluetooth
  /\ delivers = OnlyDelivers(DevId(KeyboardA), KeyboardEvents(KeysScancodes))
  /\ \E held \in {<<>>, <<30, 48, 46, 32, 18, 33>>} :
       Streaming({DevId(KeyboardA)}, held, "reports")

KeysTyped ==
  \E ev \in delivers[DevId(KeyboardA)] :
    /\ keyboardInput = <<>>
    /\ KeyboardEvent(DevId(KeyboardA), ev)

KeysNext == KeysTyped \/ SendKeyboardReports

KeysSpec == KeysInit /\ [][KeysNext]_vars

(***************************************************************************)
(* ModsSpec: one keyboard on which any set of the eight modifiers and a    *)
(* is held; the key typed is one of the eight modifiers.                   *)
(***************************************************************************)
ModifierScancodes == {29, 42, 56, 125, 97, 54, 100, 127}

ModsInit ==
  /\ bluez = NoBluetooth
  /\ \E m \in ModifierScancodes :
       delivers = OnlyDelivers(DevId(KeyboardA), KeyboardEvents({m}))
  /\ \E S \in SUBSET (ModifierScancodes \cup {30}) :
       Streaming({DevId(KeyboardA)}, SortedSeq(S), "reports")

ModsSpec == ModsInit /\ [][KeysNext]_vars

(***************************************************************************)
(* MouseSpec: one mouse. It delivers presses and releases of its three     *)
(* buttons and of a side button (code 275), motion on the axes X (0),      *)
(* Y (1) and hi-res wheel (11) with values inside and outside the range of *)
(* a signed byte, motion on the wheel axis (8), and EV_SYN. It moves only  *)
(* when the writer has caught up with the queue.                           *)
(***************************************************************************)
MouseRelValues == {5, 127, -128, 200, -129}

MouseEvents ==
  [Type : {EV_KEY}, Code : {272, 273, 274}, Value : {0, 1}]
    \cup {[Type |-> EV_KEY, Code |-> 275, Value |-> 1]}
    \cup [Type : {EV_REL}, Code : {0, 1, 11}, Value : MouseRelValues]
    \cup [Type : {EV_REL}, Code : {8}, Value : {1, -1}]
    \cup {[Type |-> EV_SYN, Code |-> 0, Value |-> 0]}

MouseInit ==
  /\ bluez = NoBluetooth
  /\ delivers = OnlyDelivers(DevId(MouseA), MouseEvents)
  /\ Streaming({DevId(MouseA)}, <<>>, "reports")

MouseMoved ==
  \E ev \in delivers[DevId(MouseA)] :
    /\ mouseInput = <<>>
    /\ MouseEvent(DevId(MouseA), ev)

MouseNext == MouseMoved \/ SendMouseReports

MouseSpec == MouseInit /\ [][MouseNext]_vars

(***************************************************************************)
(* QueueSpec: two keyboards and a mouse stream at once. Either keyboard A  *)
(* types a and keyboard B types b, or the mouse clicks its left button;    *)
(* nothing waits for the writers. The clock advances between enqueues, or  *)
(* does not.                                                               *)
(***************************************************************************)
MaxReports == 4
MaxClock == 2

\* press and release of one key or button
PressRelease(code) == [Type : {EV_KEY}, Code : {code}, Value : {0, 1}]

QueueInit ==
  /\ bluez = NoBluetooth
  /\ \E active \in {{DevId(KeyboardA), DevId(KeyboardB)}, {DevId(MouseA)}} :
       delivers = [id \in DevIds |->
                     IF id \notin active THEN {}
                     ELSE IF id = DevId(KeyboardA) THEN PressRelease(30)
                     ELSE IF id = DevId(KeyboardB) THEN PressRelease(48)
                     ELSE PressRelease(272)]
  /\ Streaming({DevId(KeyboardA), DevId(KeyboardB), DevId(MouseA)}, <<>>,
               "queues")

\* a device delivers an event while the history has fewer than max reports
Delivered(id, max) ==
  \E ev \in delivers[id] :
    IF HandlerKind(DeviceOf(id)) = "keyboard"
    THEN /\ Len(enqLog["keyboard"]) < max
         /\ KeyboardEvent(id, ev)
    ELSE /\ Len(enqLog["mouse"]) < max
         /\ MouseEvent(id, ev)

QueueTick == clock < MaxClock /\ Tick

QueueNext ==
  \/ \E id \in DevIds : Delivered(id, MaxReports)
  \/ QueueTick
  \/ SendKeyboardReports
  \/ SendMouseReports

QueueSpec == QueueInit /\ [][QueueNext]_vars

(***************************************************************************)
(* CancelSpec: a keyboard and a mouse stream, both known to the BlueZ      *)
(* adapter under their names; one of the two delivers events. udev reports *)
(* changes of the adapter, after which either device is connected or not,  *)
(* and main() runs its loop: it signals, starts handlers and reaps.        *)
(***************************************************************************)
MaxSignals == 1
MaxCancelReports == 2

\* EV_SYN, which follows every event of a device
SynReport == [Type |-> EV_SYN, Code |-> 0, Value |-> 0]

\* the adapter's devices, each connected or not
BluezStates ==
  {<<BluezDevice(<<"K">>, k), BluezDevice(<<"M">>, m)>> : k, m \in BOOLEAN}

CancelInit ==
  /\ bluez = [Err |-> FALSE,
              Devices |-> <<BluezDevice(<<"K">>, TRUE), BluezDevice(<<"M">>, TRUE)>>]
  /\ \E active \in {DevId(KeyboardA), DevId(MouseA)} :
       delivers = OnlyDelivers(active,
                    PressRelease(IF active = DevId(MouseA) THEN 272 ELSE 30)
                      \cup {SynReport})
  /\ Streaming({DevId(KeyboardA), DevId(MouseA)}, <<>>, "queues")

\* udev reports a change while few signals wait in the close channels
CancelNotify ==
  \E action \in {"add", "remove"}, devices \in BluezStates :
    /\ \A id \in DevIds : Tracked(id) => Len(close[id]) < MaxSignals
    /\ UdevNotify(action, devices)

CancelNext ==
  \/ \E id \in DevIds : Delivered(id, MaxCancelReports)
  \/ SendKeyboardReports
  \/ SendMouseReports
  \/ CancelNotify
  \/ UdevSelect
  \/ StartHandlers
  \/ Reap
  \/ \E id \in DevIds : HandlerGrab(id)
  \/ \E id \in DevIds : HandlerRelease(id)

CancelSpec == CancelInit /\ [][CancelNext]_vars

(***************************************************************************)
(* SetupSpec: SetupUSBGadget runs twice on a configuration tree that is    *)
(* fresh, or has its directories with attributes at their defaults, or was *)
(* provisioned before, wholly or but for the product string, with or       *)
(* without the links; there are zero, one or two controllers; writes go    *)
(* through or all fail (the gadget is bound).                              *)
(***************************************************************************)
\* main() before its loop: no channel is made, nothing runs but main()
Starting(v, f, g, hist) ==
  /\ alive = TRUE
  /\ flags = f
  /\ clock = 0
  /\ hpc = [id \in DevIds |-> "idle"]
  /\ loop = [id \in DevIds |-> 0]
  /\ keysDown = [id \in DevIds |-> <<>>]
  /\ buttons = [id \in DevIds |-> 0]
  /\ grabbed = {}
  /\ releasePending = [id \in DevIds |-> FALSE]
  /\ keyboardInput = <<>>
  /\ mouseInput = <<>>
  /\ output = [id \in DevIds |-> NoChan]
  /\ close = [id \in DevIds |-> NoChan]
  /\ wpc = [c \in Classes |-> "init"]
  /\ spc = "setup"
  /\ present = {}
  /\ udevCh = <<>>
  /\ bluez = NoBluetooth
  /\ delivers = [id \in DevIds |-> {}]
  /\ gadget = g
  /\ variant = v
  /\ history = hist
  /\ enqLog = [c \in Classes |-> <<>>]
  /\ wrLog = [c \in Classes |-> <<>>]
  /\ wstat = [c \in Classes |-> NoStats]
  /\ latencies = [c \in Classes |-> <<>>]
  /\ lastEvent = [id \in DevIds |-> NoEvent]
  /\ physDown = [id \in DevIds |-> {}]
  /\ lastReport = [id \in DevIds |-> NoReport]
  /\ prevReport = [id \in DevIds |-> NoReport]
  /\ observed = [id \in DevIds |-> FALSE]
  /\ outcomes = [id \in DevIds |-> <<>>]
  /\ pendingReads = [id \in DevIds |-> [reads |-> 0, reports |-> 0]]
  /\ signalLog = [id \in DevIds |-> NoSignals]

\* the stored contents of the files of a tree
DefaultFiles == [path \in GadgetFiles |-> <<>>]
ProductPath == "/sys/kernel/config/usb_gadget/piproxy/strings/0x409/product"

FileStates(controllers) ==
  LET bound == [ProvisionedFiles EXCEPT
                  ![UdcFile] = TrimSpace(UdcNames(controllers))]
  IN {DefaultFiles, bound,
      [bound EXCEPT ![UdcFile] = <<>>],
      [bound EXCEPT ![ProductPath] = <<"x">>]}

SetupInit ==
  \E controllers \in {<<>>, <<<<"u", "0">>>>, <<<<"u", "0">>, <<"u", "1">>>>},
     busy \in BOOLEAN, made \in BOOLEAN :
    \E files \in (IF made THEN FileStates(controllers) ELSE {DefaultFiles}),
       links \in (IF made THEN {{}, {l.target : l \in Symlinks}} ELSE {{}}) :
      Starting("monitor", DefaultFlags,
               [pc |-> "paths", i |-> 1, todo |-> {},
                dirs |-> IF made
                         THEN {GadgetPaths[i] : i \in 1..Len(GadgetPaths)}
                         ELSE {},
                files |-> files, links |-> links,
                controllers |-> controllers, busy |-> busy,
                run |-> 1, ops |-> <<{}, {}>>],
               "none")

SetupNext ==
  \/ SetupPath
  \/ SetupString
  \/ SetupBytes
  \/ SetupSymlink
  \/ SetupUDC
  \/ SetupAgain

SetupSpec == SetupInit /\ [][SetupNext]_vars

(***************************************************************************)
(* FaultSpec: a keyboard and a mouse stream and main() runs its loop; one  *)
(* of the two delivers events, and only when the writer has caught up with *)
(* the queue. Setting the read deadline, reading, grabbing and writing to  *)
(* a gadget node can fail; udev reports that both devices have             *)
(* disconnected from the adapter.                                          *)
(***************************************************************************)
FaultInit ==
  /\ bluez = [Err |-> FALSE,
              Devices |-> <<BluezDevice(<<"K">>, TRUE), BluezDevice(<<"M">>, TRUE)>>]
  /\ \E active \in {DevId(KeyboardA), DevId(MouseA)} :
       delivers = OnlyDelivers(active,
                    PressRelease(IF active = DevId(MouseA) THEN 272 ELSE 30))
  /\ Streaming({DevId(KeyboardA), DevId(MouseA)}, <<>>, "none")

\* udev reports that the keyboard and the mouse have disconnected
FaultNotify ==
  /\ \A id \in DevIds : Tracked(id) => Len(close[id]) < MaxSignals
  /\ UdevNotify("remove",
                <<BluezDevice(<<"K">>, FALSE), BluezDevice(<<"M">>, FALSE)>>)

FaultNext ==
  \/ KeysTyped
  \/ MouseMoved
  \/ SendKeyboardReports
  \/ SendMouseReports
  \/ KeyboardWriteError
  \/ MouseWriteError
  \/ \E id \in DevIds : ReadTimeout(id)
  \/ \E id \in DevIds : ReadError(id)
  \/ \E id \in DevIds : SetReadDeadlineError(id)
  \/ \E id \in DevIds : HandlerGrab(id)
  \/ \E id \in DevIds : HandlerRelease(id)
  \/ FaultNotify
  \/ UdevSelect
  \/ StartHandlers
  \/ Reap

FaultSpec == FaultInit /\ [][FaultNext]_vars

(***************************************************************************)
(* EnumSpec: main() of either variant from its start, with keyboard        *)
(* capture and mouse capture each enabled or not. A keyboard and a keyboard with a pointing  *)
(* stick are plugged in and out; they deliver EV_SYN. udev reports that    *)
(* both have disconnected from the adapter.                                *)
(***************************************************************************)
Pluggable == {KeyboardA, ComboA}

EnumInit ==
  /\ \E k, m \in BOOLEAN, v \in {"monitor", "poll"} :
       Starting(v, [setupKeyboard |-> k, setupMouse |-> m,
                    monitorUdev |-> (v = "monitor")],
                Provisioned, "none")

\* once the process runs, the devices deliver EV_SYN
EnumNotify ==
  /\ \A id \in DevIds : Tracked(id) => Len(close[id]) < MaxSignals
  /\ UdevNotify("remove",
                <<BluezDevice(<<"K">>, FALSE), BluezDevice(<<"T">>, FALSE)>>)

\* a device delivers EV_SYN
SynRead(id) ==
  IF HandlerKind(DeviceOf(id)) = "keyboard"
  THEN KeyboardEvent(id, SynReport)
  ELSE MouseEvent(id, SynReport)

EnumNext ==
  \/ MainStart
  \/ \E c \in Classes : WriterOpen(c)
  \/ \E dev \in Pluggable : Plug(dev)
  \/ \E dev \in Pluggable : Unplug(dev)
  \/ EnumNotify
  \/ UdevSelect
  \/ StartHandlers
  \/ Reap
  \/ ReapBlocking
  \/ \E id \in DevIds : HandlerGrab(id)
  \/ \E id \in DevIds : SynRead(id)
  \/ \E id \in DevIds : HandlerRelease(id)

EnumSpec == EnumInit /\ [][EnumNext]_vars

(***************************************************************************)
(* BackpressureSpec: one keyboard on which a key is pressed and released   *)
(* at any pace, up to MaxBacklog reports; the writer writes at any pace.   *)
(***************************************************************************)
MaxBacklog == 11

BackpressureInit ==
  /\ bluez = NoBluetooth
  /\ delivers = OnlyDelivers(DevId(KeyboardA), PressRelease(30))
  /\ Streaming({DevId(KeyboardA)}, <<>>, "queues")

BackpressureNext ==
  \/ \E id \in DevIds : Delivered(id, MaxBacklog)
  \/ SendKeyboardReports

BackpressureSpec == BackpressureInit /\ [][BackpressureNext]_vars

(***************************************************************************)
(* CheckpointSpec: a keyboard or a mouse streams key events and EV_SYN,    *)
(* each event when the writer has caught up; reads time out; udev reports  *)
(* that the device has disconnected from the adapter at any moment, and    *)
(* main() signals, reaps and starts the handler again.                     *)
(***************************************************************************)
CheckpointInit ==
  /\ bluez = NoBluetooth
  /\ \E active \in {DevId(KeyboardA), DevId(MouseA)} :
       /\ delivers = OnlyDelivers(active,
                       PressRelease(IF active = DevId(MouseA) THEN 272 ELSE 30)
                         \cup {SynReport})
       /\ Streaming({active}, <<>>, "none")

\* udev reports that the keyboard and the mouse have disconnected
CheckpointNotify ==
  /\ \A id \in DevIds : Tracked(id) => Len(close[id]) < MaxSignals
  /\ UdevNotify("remove",
                <<BluezDevice(<<"K">>, FALSE), BluezDevice(<<"M">>, FALSE)>>)

CheckpointNext ==
  \/ KeysTyped
  \/ MouseMoved
  \/ SendKeyboardReports
  \/ SendMouseReports
  \/ \E id \in DevIds : ReadTimeout(id)
  \/ CheckpointNotify
  \/ UdevSelect
  \/ StartHandlers
  \/ Reap
  \/ \E id \in DevIds : HandlerGrab(id)
  \/ \E id \in DevIds : HandlerRelease(id)

CheckpointSpec == CheckpointInit /\ [][CheckpointNext]_vars

(***************************************************************************)
(* SignalSpec: two of the keyboards "K" and "K2" and the mouse "M" are     *)
(* tracked and silent. udev reports additions, removals and changes while  *)
(* main() sleeps; the adapter lists two devices, by name or without a      *)
(* name, connected or not, some of whose properties cannot be read, or     *)
(* cannot be queried at all.                                               *)
(***************************************************************************)
FirstListed ==
  {BluezDevice(<<"K">>, FALSE), BluezDevice(<<"K">>, TRUE),
   BluezDevice(<<"K", "2">>, FALSE), BluezDevice(<<>>, FALSE)}

SecondListed ==
  {BluezDevice(<<"M">>, FALSE), BluezDevice(<<"K">>, FALSE),
   BluezDevice(<<"K">>, TRUE),
   [BluezDevice(<<"K">>, FALSE) EXCEPT !.NameErr = TRUE],
   [BluezDevice(<<"K">>, FALSE) EXCEPT !.AddressErr = TRUE],
   [BluezDevice(<<"K">>, FALSE) EXCEPT !.ConnectedErr = TRUE]}

SignalInit ==
  /\ bluez = NoBluetooth
  /\ delivers = [id \in DevIds |-> {}]
  /\ \E ids \in {{DevId(KeyboardA), DevId(KeyboardB)},
                  {DevId(KeyboardB), DevId(MouseA)},
                  {DevId(KeyboardA), DevId(MouseA)}} :
       Streaming(ids, <<>>, "none")

\* udev reports a change of the adapter's devices
SignalNotify ==
  \E action \in {"add", "remove", "change"}, first \in FirstListed,
     second \in SecondListed :
    /\ spc = "reap"
    /\ UdevNotify(action, <<first, second>>)

\* udev reports a change and the adapter cannot be queried
SignalNotifyError ==
  /\ alive
  /\ spc = "reap"
  /\ udevCh = <<>>
  /\ udevCh' = <<"remove">>
  /\ bluez' = [Err |-> TRUE, Devices |-> <<BluezDevice(<<"K">>, FALSE)>>]
  /\ UNCHANGED <<alive, hvars, chvars, wpc, spc, flags, clock, present,
                 delivers, sysvars, histvars>>

SignalNext ==
  \/ SignalNotify
  \/ SignalNotifyError
  \/ UdevSelect
  \/ StartHandlers
  \/ Reap

SignalSpec == SignalInit /\ [][SignalNext]_vars

(***************************************************************************)
(* QuerySpec: a keyboard "K" and a mouse "M" are tracked and silent. udev  *)
(* reports a removal while the adapter lists up to MaxDevices devices      *)
(* named "K" or "M", connected or not, or devices whose name, address or   *)
(* connection state cannot be read; main() queries the adapter.            *)
(***************************************************************************)
MaxDevices == 3

QueriedDevices ==
  {BluezDevice(name, conn) : name \in {<<"K">>, <<"M">>}, conn \in BOOLEAN}
    \cup {[BluezDevice(<<"K">>, conn) EXCEPT !.NameErr = TRUE] :
            conn \in BOOLEAN}
    \cup {[BluezDevice(<<"K">>, FALSE) EXCEPT !.AddressErr = TRUE],
          [BluezDevice(<<"M">>, FALSE) EXCEPT !.ConnectedErr = TRUE]}

\* the lists of QueriedDevices of length n
DeviceLists(n) == [1..n -> QueriedDevices]

QueryInit ==
  /\ bluez = NoBluetooth
  /\ delivers = [id \in DevIds |-> {}]
  /\ Streaming({DevId(KeyboardA), DevId(MouseA)}, <<>>, "none")

\* the adapter, which listed nothing, lists devices and udev reports a
\* removal while main() sleeps
QueryNotify ==
  \E n \in 0..MaxDevices : \E devices \in DeviceLists(n) :
    /\ spc = "reap"
    /\ bluez.Devices = <<>>
    /\ UdevNotify("remove", devices)

QueryNext ==
  \/ QueryNotify
  \/ UdevSelect
  \/ StartHandlers
  \/ Reap

QuerySpec == QueryInit /\ [][QueryNext]_vars

(***************************************************************************)
(* BacklogSpec: a keyboard and a mouse are tracked and silent; udev        *)
(* reports additions, removals, changes at any pace, up to MaxPending of them    *)
(* waiting for main(), while few signals wait in the close channels.       *)
(***************************************************************************)
MaxPending == 2

BacklogInit ==
  /\ bluez = NoBluetooth
  /\ delivers = [id \in DevIds |-> {}]
  /\ Streaming({DevId(KeyboardA), DevId(MouseA)}, <<>>, "none")

BacklogNotify ==
  \E action \in {"add", "remove", "change"}, devices \in BluezStates :
    /\ \A id \in DevIds : Tracked(id) => Len(close[id]) < MaxSignals
    /\ UdevNotifyQueued(action, devices, MaxPending)

BacklogNext ==
  \/ BacklogNotify
  \/ UdevSelect
  \/ StartHandlers
  \/ Reap

BacklogSpec == BacklogInit /\ [][BacklogNext]_vars

(***************************************************************************)
(* TimeoutSpec: a keyboard or a mouse streams; a key or a button is        *)
(* pressed and released, the mouse moves, each event when the writer has   *)
(* caught up; any read can end in a timeout.                               *)
(***************************************************************************)
TimeoutInit ==
  /\ bluez = NoBluetooth
  /\ \E active \in {DevId(KeyboardA), DevId(MouseA)} :
       /\ delivers = OnlyDelivers(active,
                       IF active = DevId(MouseA)
                       THEN PressRelease(272) \cup {SynReport}
                              \cup {[Type |-> EV_REL, Code |-> 0, Value |-> 5]}
                       ELSE PressRelease(30) \cup PressRelease(42)
                              \cup {SynReport})
       /\ Streaming({active}, <<>>, "reports")

TimeoutNext ==
  \/ KeysTyped
  \/ MouseMoved
  \/ SendKeyboardReports
  \/ SendMouseReports
  \/ \E id \in DevIds : ReadTimeout(id)

TimeoutSpec == TimeoutInit /\ [][TimeoutNext]_vars

(***************************************************************************)
(* UnknownSpec: a keyboard streams; the key 30 and a key whose scancode    *)
(* (240) is not in the table are pressed, repeated and released, each      *)
(* event when the writer has caught up; udev reports that the keyboard has *)
(* disconnected from the adapter, and main() signals, reaps and starts the *)
(* handler again.                                                          *)
(***************************************************************************)
UnknownInit ==
  /\ bluez = NoBluetooth
  /\ delivers = OnlyDelivers(DevId(KeyboardA),
                  PressRelease(30)
                    \cup [Type : {EV_KEY}, Code : {240}, Value : {0, 1, 2}])
  /\ Streaming({DevId(KeyboardA)}, <<>>, "reports")

UnknownNext ==
  \/ KeysTyped
  \/ SendKeyboardReports
  \/ CheckpointNotify
  \/ UdevSelect
  \/ StartHandlers
  \/ Reap
  \/ \E id \in DevIds : HandlerGrab(id)
  \/ \E id \in DevIds : HandlerRelease(id)

UnknownSpec == UnknownInit /\ [][UnknownNext]_vars

(***************************************************************************)
(* LatencySpec: a keyboard or a mouse streams presses and releases, each   *)
(* when the writer has caught up; hrtime advances up to MaxLatency between *)
(* the capture of a report and its write; MaxWrites reports are written.   *)
(***************************************************************************)
MaxLatency == 3
MaxWrites == 3

LatencyInit ==
  /\ bluez = NoBluetooth
  /\ \E active \in {DevId(KeyboardA), DevId(MouseA)} :
       /\ delivers = OnlyDelivers(active,
                       PressRelease(IF active = DevId(MouseA) THEN 272 ELSE 30))
       /\ Streaming({active}, <<>>, "latency")

\* hrtime advances while a report waits in a queue
LatencyTick ==
  /\ \E queue \in {keyboardInput, mouseInput} :
       /\ queue # <<>>
       /\ clock - Head(queue).Timestamp < MaxLatency
  /\ Tick

LatencyNext ==
  \/ KeysTyped /\ Len(latencies["keyboard"]) < MaxWrites
  \/ MouseMoved /\ Len(latencies["mouse"]) < MaxWrites
  \/ LatencyTick
  \/ SendKeyboardReports
  \/ SendMouseReports

LatencySpec == LatencyInit /\ [][LatencyNext]_vars

(***************************************************************************)
(* QuietSpec: a keyboard streams; a key is pressed and released until      *)
(* MaxQuietReports reports were enqueued, then the keyboard is silent and  *)
(* every read times out. udev reports that the keyboard has disconnected   *)
(* from the adapter; main() signals, reaps and starts the handler again.   *)
(* Every goroutine that can take a step eventually takes one.              *)
(***************************************************************************)
MaxQuietReports == 5

QuietInit ==
  /\ bluez = NoBluetooth
  /\ delivers = OnlyDelivers(DevId(KeyboardA), PressRelease(30))
  /\ Streaming({DevId(KeyboardA)}, <<>>, "queues")

\* what main() does in its loop
MainStep == UdevSelect \/ StartHandlers \/ Reap

\* what the handler of id does when its device has nothing to deliver
QuietHandlerStep(id) ==
  ReadTimeout(id) \/ HandlerGrab(id) \/ HandlerRelease(id)

QuietNext ==
  \/ \E id \in DevIds : Delivered(id, MaxQuietReports)
  \/ \E id \in DevIds : QuietHandlerStep(id)
  \/ SendKeyboardReports
  \/ CheckpointNotify
  \/ MainStep

QuietSpec ==
  /\ QuietInit
  /\ [][QuietNext]_vars
  /\ WF_vars(MainStep)
  /\ WF_vars(SendKeyboardReports)
  /\ \A id \in DevIds : WF_vars(QuietHandlerStep(id))

(***************************************************************************)
(* A keyboard whose handler is stopped and started again, with the history *)
(* of the signals sent on close                                            *)
(***************************************************************************)
RestartInit ==
  /\ bluez = NoBluetooth
  /\ delivers = OnlyDelivers(DevId(KeyboardA), PressRelease(30) \cup {SynReport})
  /\ Streaming({DevId(KeyboardA)}, <<>>, "signals")

RestartNext ==
  \/ KeysTyped
  \/ SendKeyboardReports
  \/ CheckpointNotify
  \/ UdevSelect
  \/ StartHandlers
  \/ Reap
  \/ \E id \in DevIds : HandlerGrab(id)
  \/ \E id \in DevIds : HandlerRelease(id)

RestartSpec == RestartInit /\ [][RestartNext]_vars


(***************************************************************************)
(* Properties of the keyboard reports                                      *)
(***************************************************************************)
KbdA == DevId(KeyboardA)

\* the usages 224..231 are the modifier keys; usage 224 + i has bit i
IsModifierUsage(k) == k \in 224..231

TwoTo(i) == CASE i = 0 -> 1 [] i = 1 -> 2 [] i = 2 -> 4 [] i = 3 -> 8
              [] i = 4 -> 16 [] i = 5 -> 32 [] i = 6 -> 64 [] i = 7 -> 128

\* the usages of a KeyState as a set
UsagesIn(keys) == {keys[i] : i \in 1..Len(keys)}

\* the non-modifier usages of a KeyState, in its order
NonModifierKeys(keys) == SelectSeq(keys, LAMBDA k : ~IsModifierUsage(k))

\* the first six entries of s, zero-padded to six
FirstSixPadded(s) == [i \in 1..6 |-> IF i <= Len(s) THEN s[i] ELSE 0]

\* byte 0 of report r has exactly the bits of the modifiers in keys
ModifierByteOf(r, keys) ==
  \A i \in 0..7 : HasBit(r[1], TwoTo(i)) <=> (224 + i) \in UsagesIn(keys)

ZeroReport == <<0, 0, 0, 0, 0, 0, 0, 0>>

KeyDownOf(sc) == [Type |-> EV_KEY, Code |-> sc, Value |-> 1]
KeyUpOf(sc) == [Type |-> EV_KEY, Code |-> sc, Value |-> 0]

\* C1: every report a keyboard handler enqueues is exactly 8 bytes long:
\* byte 0 the modifier byte, byte 1 zero, bytes 2..7 the key slots; also
\* with 7 or more non-modifier keys held.
C1_ReportIsEightBytes ==
  /\ \A i \in 1..Len(keyboardInput) :
       /\ Len(keyboardInput[i].Message) = 8
       /\ keyboardInput[i].Message[2] = 0
  /\ lastReport[KbdA] # NoReport =>
       /\ Len(lastReport[KbdA]) = 8
       /\ lastReport[KbdA][2] = 0
       /\ ModifierByteOf(lastReport[KbdA], keysDown[KbdA])

\* C2: the key-slot bytes of the report are the non-modifier usages of
\* KeyState, in its order, cut to the first 6 and zero-padded; no usage in
\* 224..231 is in a slot byte.
C2_SlotsAreFirstSix ==
  lastReport[KbdA] # NoReport =>
    LET r == lastReport[KbdA]
        slots == SubSeq(r, 3, Len(r))
    IN /\ slots = FirstSixPadded(NonModifierKeys(keysDown[KbdA]))
       /\ \A i \in 1..Len(slots) : ~IsModifierUsage(slots[i])

\* the bit of byte 0 that belongs to the scancode of a modifier key
ModifierBitOfScancode(sc) ==
  CASE sc = 29 -> 1 [] sc = 42 -> 2 [] sc = 56 -> 4 [] sc = 125 -> 8
    [] sc = 97 -> 16 [] sc = 54 -> 32 [] sc = 100 -> 64 [] sc = 127 -> 128

\* C3: the report enqueued for the key-down of a modifier has that
\* modifier's bit set in byte 0; the report enqueued for its key-up has the
\* byte 0 of the previous report with that bit cleared and every other bit
\* as it was.
C3_ModifierBits ==
  LET ev == lastEvent[KbdA]
      bit == ModifierBitOfScancode(ev.Code)
  IN (ev.Type = EV_KEY /\ ev.Code \in ModifierScancodes) =>
       /\ ev.Value = 1 => HasBit(lastReport[KbdA][1], bit)
       /\ (ev.Value = 0 /\ prevReport[KbdA] # NoReport) =>
            /\ ~HasBit(lastReport[KbdA][1], bit)
            /\ \A i \in 0..7 :
                 TwoTo(i) # bit =>
                   (HasBit(lastReport[KbdA][1], TwoTo(i))
                      <=> HasBit(prevReport[KbdA][1], TwoTo(i)))

\* C3's case: left shift released while all eight modifiers were held
C3_Witness ==
  /\ lastEvent[KbdA] = KeyUpOf(42)
  /\ prevReport[KbdA] # NoReport
  /\ prevReport[KbdA][1] = 255
  /\ lastReport[KbdA][1] = 253

\* C4: KeyState holds each usage at most once.
C4_NoDuplicateUsage ==
  \A id \in DevIds :
    \A i, j \in 1..Len(keysDown[id]) :
      keysDown[id][i] = keysDown[id][j] => i = j

\* C4's case: scancode 86 goes down while scancode 43, of the same usage
\* 49, is down
C4_Witness ==
  /\ lastEvent[KbdA] = KeyDownOf(86)
  /\ {43, 86} \subseteq physDown[KbdA]
  /\ 49 \in UsagesIn(keysDown[KbdA])

\* the handler of id reads an event in this step
EventRead(id) == loop'[id] # loop[id] \/ hpc'[id] # hpc[id]

\* report r tells the whole of keys: the modifier bits of its modifiers,
\* byte 1 zero, every non-modifier usage in a slot, nothing else
RebuiltFrom(r, keys) ==
  /\ Len(r) >= 8
  /\ ModifierByteOf(r, keys)
  /\ r[2] = 0
  /\ {r[i] : i \in 3..Len(r)} \ {0} = UsagesIn(NonModifierKeys(keys))

\* what one step of the handler of KbdA does with a key-down or key-up of
\* a known scancode
C5_Step ==
  LET ev == lastEvent'[KbdA]
  IN (EventRead(KbdA) /\ KnownKey(ev) /\ ev.Value \in {0, 1}) =>
       /\ \E m \in {Head(keyboardInput')} \cup {keyboardInput'[Len(keyboardInput')]} :
            /\ keyboardInput' = Append(keyboardInput, m)
            /\ m.Message = lastReport'[KbdA]
       /\ RebuiltFrom(lastReport'[KbdA], keysDown'[KbdA])
       /\ (physDown[KbdA] = {} /\ ev = KeyDownOf(30)) =>
            lastReport'[KbdA] = <<0, 0, 4, 0, 0, 0, 0, 0>>
       /\ (physDown[KbdA] = {30} /\ ev = KeyUpOf(30)) =>
            lastReport'[KbdA] = ZeroReport
       /\ (physDown[KbdA] = {42} /\ ev = KeyDownOf(30)) =>
            lastReport'[KbdA] = <<2, 0, 4, 0, 0, 0, 0, 0>>

\* C5: a key-down or key-up of a known scancode enqueues exactly one
\* report, rebuilt from the KeyState after the event (30 down then up on
\* an idle keyboard: [0,0,4,0,0,0,0,0] then zeros; 30 down while 42 is
\* held: [2,0,4,0,0,0,0,0]); when every pressed key has been released the
\* last report is all zeros.
C5_OneReportPerKeyEvent ==
  /\ [][C5_Step]_vars
  /\ [](physDown[KbdA] = {} /\ lastReport[KbdA] # NoReport
          => lastReport[KbdA] = ZeroReport)

\* C5's case: scancode 30 went down while only left shift was held
C5_Witness ==
  /\ lastEvent[KbdA] = KeyDownOf(30)
  /\ physDown[KbdA] = {30, 42}
  /\ lastReport[KbdA] = <<2, 0, 4, 0, 0, 0, 0, 0>>
  /\ prevReport[KbdA] = <<2, 0, 0, 0, 0, 0, 0, 0>>

(***************************************************************************)
(* Properties of the mouse reports                                         *)
(***************************************************************************)
MseA == DevId(MouseA)

\* the bit of MouseState that belongs to a button code
BitOfButton(code) == CASE code = 272 -> 1 [] code = 273 -> 2 [] code = 274 -> 4

ButtonPress(code) == [Type |-> EV_KEY, Code |-> code, Value |-> 1]
ButtonRelease(code) == [Type |-> EV_KEY, Code |-> code, Value |-> 0]

\* what one step of the handler of MseA does with a press or release of
\* the left, right or middle button
C6_Step ==
  LET ev == lastEvent'[MseA]
      bit == BitOfButton(ev.Code)
  IN (EventRead(MseA) /\ ev.Type = EV_KEY /\ ev.Code \in {272, 273, 274}
        /\ ev.Value \in {0, 1}) =>
       /\ \A i \in 0..7 :
            HasBit(buttons'[MseA], TwoTo(i)) <=>
              IF TwoTo(i) = bit THEN ev.Value = 1
              ELSE HasBit(buttons[MseA], TwoTo(i))
       /\ mouseInput' = Append(mouseInput,
                               [Message |-> <<buttons'[MseA], 0, 0, 0>>,
                                Timestamp |-> clock])
       /\ lastReport'[MseA] = <<buttons'[MseA], 0, 0, 0>>
       /\ (buttons[MseA] = 0 /\ ev = ButtonPress(272)) =>
            lastReport'[MseA] = <<1, 0, 0, 0>>
       /\ (buttons[MseA] = 1 /\ ev = ButtonRelease(272)) =>
            lastReport'[MseA] = <<0, 0, 0, 0>>

\* C6: a press of the left, right or middle button sets exactly that
\* button's bit in MouseState, a release clears exactly that bit, and each
\* such event enqueues exactly one report [buttons,0,0,0] (left press on an
\* idle mouse: [1,0,0,0]; its release: [0,0,0,0]).
C6_ButtonEvents == [][C6_Step]_vars

\* C6's case: the middle button is released while left and right are held
C6_Witness ==
  /\ lastEvent[MseA] = ButtonRelease(274)
  /\ prevReport[MseA] = <<7, 0, 0, 0>>
  /\ lastReport[MseA] = <<3, 0, 0, 0>>
  /\ buttons[MseA] = 3

\* C7: every report a mouse handler enqueues is exactly 4 bytes long, also
\* for a relative-motion event whose axis is none of X, Y and wheel (11).
C7_ReportIsFourBytes ==
  /\ \A i \in 1..Len(mouseInput) : Len(mouseInput[i].Message) = 4
  /\ lastReport[MseA] # NoReport => Len(lastReport[MseA]) = 4

\* C8: the report enqueued for a relative-motion event of value v on the
\* axis X, Y or wheel has v in that axis's byte, read as a signed 8-bit
\* integer, and 0 in the two other axis bytes, for every v.
C8_AxisByteIsValue ==
  LET ev == lastEvent[MseA]
      r == lastReport[MseA]
      pos == CASE ev.Code = 0 -> 2 [] ev.Code = 1 -> 3 [] ev.Code = 11 -> 4
  IN (ev.Type = EV_REL /\ ev.Code \in {0, 1, 11}) =>
       /\ Len(r) = 4
       /\ \A i \in 2..4 : Int8(r[i]) = IF i = pos THEN ev.Value ELSE 0


(***************************************************************************)
(* Properties of the queues                                                *)
(***************************************************************************)
KbdB == DevId(KeyboardB)

\* the messages of a history of enqueues
Messages(log) == [i \in 1..Len(log) |-> log[i].msg]

\* the queue of a report class
QueueOf(c) == IF c = "keyboard" THEN keyboardInput ELSE mouseInput

\* C9: within a report class, whatever handlers enqueue and however they
\* interleave, what the writer has written followed by what waits in the
\* queue is exactly the sequence of the messages as they were enqueued: no
\* report is reordered, dropped, duplicated or merged.
C9_WrittenInEnqueueOrder ==
  \A c \in Classes : Messages(enqLog[c]) = wrLog[c] \o QueueOf(c)

\* keyboard A, keyboard B and keyboard A again have enqueued, at different
\* times, while nothing was written; then three reports were written
C9_Witness ==
  /\ Len(enqLog["keyboard"]) = 4
  /\ enqLog["keyboard"][1].dev = KbdA
  /\ enqLog["keyboard"][2].dev = KbdB
  /\ enqLog["keyboard"][3].dev = KbdA
  /\ enqLog["keyboard"][1].msg.Timestamp < enqLog["keyboard"][3].msg.Timestamp
  /\ Len(wrLog["keyboard"]) = 3
  /\ Len(keyboardInput) = 1


(***************************************************************************)
(* Properties of the cancellation                                          *)
(***************************************************************************)
\* how many reports the handler of id has enqueued
EnqueuedBy(id) ==
  Cardinality({i \in DOMAIN enqLog["keyboard"] : enqLog["keyboard"][i].dev = id})
    + Cardinality({i \in DOMAIN enqLog["mouse"] : enqLog["mouse"][i].dev = id})

\* a step of C10, for the handler of every identity
C10_Step ==
  \A id \in DevIds :
    \* it receives the signal: nil goes on its outcome channel in the same
    \* iteration, and the channel has room for it
    /\ (~observed[id] /\ observed'[id]) =>
         /\ output'[id] = Append(output[id], Nil)
         /\ Len(output'[id]) <= OutputCap
         /\ hpc'[id] = "done"
    \* it has received the signal: it enqueues nothing and sends nothing
    /\ (observed[id] /\ observed'[id]) =>
         /\ EnqueuedBy(id)' = EnqueuedBy(id)
         /\ outcomes'[id] = outcomes[id]

\* C10: once a keyboard or mouse handler has received a cancellation
\* signal at its checkpoint it enqueues no further report, and its outcome
\* channel has received exactly one value, nil, by a send that did not block.
C10_CancelledHandlerStops ==
  /\ [][C10_Step]_vars
  /\ [](\A id \in DevIds : observed[id] => outcomes[id] = <<Nil>>)

\* the mouse handler has received its signal and returned, while its device
\* could deliver more and the history has room for more reports; main()
\* has not reaped it yet
C10_Witness ==
  /\ observed[MseA]
  /\ hpc[MseA] = "done"
  /\ output[MseA] = <<Nil>>
  /\ delivers[MseA] # {}
  /\ Len(enqLog["mouse"]) = 1
  /\ Len(wrLog["mouse"]) = 1


(***************************************************************************)
(* Properties of the provisioning                                          *)
(***************************************************************************)
\* C16: the second run of SetupUSBGadget on a tree nothing else has changed
\* creates no directory and no link, and writes no file but one the first
\* run tried to write and could not; it writes no file the first run wrote.
C16_SecondRunWritesNothing ==
  \A op \in gadget.ops[2] :
    /\ op.kind = "write"
    /\ ~op.ok
    /\ [kind |-> "write", path |-> op.path, ok |-> FALSE] \in gadget.ops[1]

\* the second run has returned after a first run that made the
\* directories and the links and wrote every file
C16_Witness ==
  /\ gadget.run = 2
  /\ gadget.pc = "done"
  /\ gadget.ops[2] = {}
  /\ \A path \in GadgetFiles :
       [kind |-> "write", path |-> path, ok |-> TRUE] \in gadget.ops[1]
  /\ \E op \in gadget.ops[1] : op.kind = "mkdir" /\ op.ok
  /\ \E op \in gadget.ops[1] : op.kind = "symlink" /\ op.ok


(***************************************************************************)
(* Properties of the failures                                              *)
(***************************************************************************)
\* C11: when the handler of one device suffers a fatal failure (grab,
\* read deadline or read), only that handler terminates: the process lives
\* on with main()'s loop, the writers and the handlers of the other
\* devices, and the handler's outcome channel holds the error for main().
C11_FatalFailureIsolated ==
  \A id \in DevIds :
    hpc[id] = "fatal" =>
      /\ alive
      /\ Tracked(id) => output[id] # <<>>

\* C14: when a write on a gadget node fails, only the writer of that class
\* terminates: the process lives on.
C14_WriteFailureIsolated ==
  \A c \in Classes : wpc[c] = "fatal" => alive

\* C15: a handler that has terminated has sent exactly one value on its
\* outcome channel, nil after a cancellation and the error after a failed
\* grab or read; a handler that runs has sent none.
C15_ExactlyOneOutcome ==
  \A id \in DevIds :
    /\ hpc[id] \in {"grab", "stream"} => outcomes[id] = <<>>
    /\ hpc[id] = "done" => outcomes[id] = <<Nil>>
    /\ hpc[id] = "fatal" => Len(outcomes[id]) = 1 /\ outcomes[id][1] # Nil


(***************************************************************************)
(* Properties of the enumeration                                           *)
(***************************************************************************)
ComboId == DevId(ComboA)

\* a handler of id runs: it grabs or it streams
Running(id) == hpc[id] \in {"grab", "stream"}

\* the handler goroutines of id that have not returned: the one that grabs
\* or streams, and the one that has sent nil and has yet to run its
\* deferred dev.Release()
HandlersOf(id) ==
  (IF Running(id) THEN 1 ELSE 0) + (IF releasePending[id] THEN 1 ELSE 0)

\* main() starts a handler for an identity only when it does not track the
\* identity, and the identity of a handler that grabs or streams is tracked
StartsOnlyUntracked ==
  /\ [][\A id \in DevIds :
          (hpc'[id] = "grab" /\ (hpc[id] # "grab" \/ output'[id] # output[id]))
            => ~Tracked(id) /\ ~Running(id)]_vars
  /\ [](\A id \in DevIds : Running(id) => Tracked(id))
  /\ [](\A dev \in AllInputDevices : ~(StartsKeyboard(dev) /\ StartsMouse(dev)))

\* C12: at any time at most one capture handler runs for an identity.
C12_OneHandlerPerIdentity ==
  \A id \in DevIds : HandlersOf(id) <= 1

\* C13: a device with key events and relative motion is treated as a
\* keyboard: with keyboard capture enabled, main() starts a keyboard
\* handler for it and no mouse handler.
C13_ComboIsKeyboard ==
  \A dev \in AllInputDevices :
    (IsKeyboard(dev) /\ IsMouse(dev) /\ flags.setupKeyboard
       /\ Tracked(DevId(dev))) =>
      /\ hpc[DevId(dev)] # "idle"
      /\ HandlerKind(dev) = "keyboard"

\* what main() does next in its loop
SupervisorStep == UdevSelect \/ StartHandlers \/ Reap \/ ReapBlocking

\* C17: in each variant no channel operation of main()'s loop blocks:
\* wherever the loop stands, its next step can be taken whatever the
\* handlers have or have not done.
C17_SupervisorNeverBlocks ==
  (alive /\ spc \in {"select", "enumerate", "reap"}) => ENABLED SupervisorStep

\* C17 for the variant with the udev monitor alone
MonitorNeverBlocks ==
  (alive /\ variant = "monitor" /\ spc \in {"select", "enumerate", "reap"})
    => ENABLED SupervisorStep

(***************************************************************************)
(* Properties of the bound of the keyboard queue                           *)
(***************************************************************************)
\* the reports the keyboard handlers have enqueued, in order
EnqueuedReports ==
  [i \in 1..Len(enqLog["keyboard"]) |-> enqLog["keyboard"][i].msg]

\* the handler of the keyboard handles no event in this step
KeyboardWaits ==
  /\ enqLog' = enqLog
  /\ keysDown' = keysDown
  /\ loop' = loop

\* C18: the keyboard queue never holds more than 10 reports; while it is
\* full the handler that has a report to enqueue handles nothing; and every
\* report enqueued is written or still in the queue, in order.
C18_QueueBoundedNothingLost ==
  /\ [](Len(keyboardInput) <= KeyboardQueueCap)
  /\ [](EnqueuedReports = wrLog["keyboard"] \o keyboardInput)
  /\ [][Len(keyboardInput) = KeyboardQueueCap => KeyboardWaits]_vars

\* the queue is full, the writer has written nothing yet, and the keyboard
\* has another event for the handler
C18_Witness ==
  /\ Len(keyboardInput) = KeyboardQueueCap
  /\ wrLog["keyboard"] = <<>>
  /\ Len(enqLog["keyboard"]) < MaxBacklog
  /\ hpc[KbdA] = "stream"

(***************************************************************************)
(* Properties of the checkpoint                                            *)
(***************************************************************************)
\* the handler of id selects on its close channel after every event of
\* this rank
CheckEvery == LoopLimit + 1

\* handler id handles an event in this step
HandlesEvent(id) ==
  hpc[id] = "stream" /\ (loop'[id] # loop[id] \/ hpc'[id] # "stream")

\* a step of C19: the handler stops where it has handled CheckEvery events
\* since its last select and a signal waits, and only there; it sends nil
C19_Step ==
  \A id \in DevIds :
    HandlesEvent(id) =>
      /\ (hpc'[id] = "done") <=> (loop[id] + 1 = CheckEvery /\ close[id] # <<>>)
      /\ hpc'[id] \in {"stream", "done"}
      /\ hpc'[id] = "done" =>
           /\ outcomes'[id] = <<Nil>>
           /\ releasePending'[id]
      /\ hpc'[id] = "stream" =>
           loop'[id] = (loop[id] + 1) % CheckEvery

\* C19: a handler selects on its close channel, without blocking, after
\* every 4th event it reads; from the moment a signal waits it reads at most
\* 4 more events and enqueues at most 4 more reports, and with the 4th it
\* sends nil and stops.
C19_CheckEveryFourth ==
  /\ [][C19_Step]_vars
  /\ [](\A id \in DevIds :
          /\ pendingReads[id].reads <= CheckEvery
          /\ pendingReads[id].reports <= pendingReads[id].reads
          /\ (hpc[id] = "stream" /\ close[id] # <<>>) =>
               pendingReads[id].reads < CheckEvery)

\* a handler has read 4 events and enqueued 4 reports after the signal,
\* has sent nil and released the device
C19_Witness ==
  \E id \in DevIds :
    /\ pendingReads[id] = [reads |-> CheckEvery, reports |-> CheckEvery]
    /\ hpc[id] = "done"
    /\ outcomes[id] = <<Nil>>
    /\ ~releasePending[id]
    /\ id \notin grabbed

(***************************************************************************)
(* Properties of the cancellation signals                                  *)
(***************************************************************************)
\* the names GetDisconnectedDevices returns for the adapter as it is
DisconnectedNames ==
  LET r == GetDisconnectedDevices(bluez.Devices)
  IN IF bluez.Err THEN {} ELSE {r[i] : i \in 1..Len(r)}

\* name p is a prefix of name s
StartsWith(s, p) == \E n \in 0..Len(s) : p = [i \in 1..n |-> s[i]]

\* main() handles a notification of an addition or a removal in this step
HandlesAddRemove ==
  /\ spc = "select"
  /\ spc' = "enumerate"
  /\ flags.monitorUdev
  /\ udevCh # <<>>
  /\ Head(udevCh) \in {"add", "remove"}

\* handler id is sent a signal in this step
Signalled(id) == Len(close'[id]) > Len(close[id])

\* a step of C20
C20_Step ==
  \A id \in DevIds :
    Tracked(id) =>
      /\ Signalled(id) <=>
           /\ HandlesAddRemove
           /\ \E name \in DisconnectedNames : StartsWith(id.Name, name)
           /\ Len(close[id]) < CloseCap
      /\ ~Signalled(id) => close'[id] = close[id]

\* C20: when main() handles a notification of an addition or a removal, a
\* tracked handler is sent a signal if and only if a name returned by
\* GetDisconnectedDevices is a prefix of its identity's name and its close
\* channel has room; no other tracked handler is sent a signal.
C20_SignalIffPrefix == [][C20_Step]_vars

\* the keyboard "K2" has been signalled until its channel was full, the
\* keyboard "K" once less; the last notification handled named "K2"
C20_Witness ==
  /\ spc = "enumerate"
  /\ udevCh = <<>>
  /\ ~Tracked(MseA)
  /\ Tracked(KbdA)
  /\ Tracked(KbdB)
  /\ Len(close[KbdB]) = CloseCap
  /\ Len(close[KbdA]) = CloseCap - 1
  /\ bluez.Devices[1] = BluezDevice(<<"K", "2">>, FALSE)

(***************************************************************************)
(* Properties of GetDisconnectedDevices                                    *)
(***************************************************************************)
\* the name a device of the adapter reports, "?" when it cannot be read
ReportedName(d) == IF d.NameErr THEN <<"?">> ELSE d.Name

\* the names of the devices of the adapter whose address and connection
\* state can be read and that report this connection state
NamesReporting(conn) ==
  {ReportedName(bluez.Devices[i]) :
     i \in {j \in 1..Len(bluez.Devices) :
              /\ ~bluez.Devices[j].AddressErr
              /\ ~bluez.Devices[j].ConnectedErr
              /\ bluez.Devices[j].Connected = conn}}

\* C21: GetDisconnectedDevices returns exactly the names that a device
\* reports as not connected and no device reports as connected, each name
\* once; a device whose address or connection state cannot be read counts
\* in neither set.
C21_DisconnectedNotConnected ==
  LET r == GetDisconnectedDevices(bluez.Devices)
  IN /\ {r[i] : i \in 1..Len(r)} = NamesReporting(FALSE) \ NamesReporting(TRUE)
     /\ \A i, j \in 1..Len(r) : r[i] = r[j] => i = j

\* main() has queried an adapter on which "M" is reported as not connected
\* twice, "K" as not connected and as connected: the mouse has one signal,
\* the keyboard none
C21_Witness ==
  /\ spc = "enumerate"
  /\ udevCh = <<>>
  /\ bluez.Devices = <<BluezDevice(<<"M">>, FALSE), BluezDevice(<<"K">>, FALSE),
                       BluezDevice(<<"K">>, TRUE)>>
       \/ bluez.Devices = <<BluezDevice(<<"M">>, FALSE),
                            BluezDevice(<<"M">>, FALSE),
                            BluezDevice(<<"K">>, TRUE)>>
  /\ GetDisconnectedDevices(bluez.Devices) = <<<<"M">>>>
  /\ Tracked(MseA)
  /\ Len(close[MseA]) = 1
  /\ close[KbdA] = <<>>

(***************************************************************************)
(* Properties of the records of main()                                     *)
(***************************************************************************)
\* C22: the close channel of a handler is a single slot: at most one signal
\* is ever accepted onto it, so at most one waits at any time.
C22_SingleSlot ==
  \A id \in DevIds : Tracked(id) => Len(close[id]) <= 1

\* a step of C23: the pass over output after the sleep removes every
\* identity whose channel holds a value and no other; the enumeration
\* tracks every listed identity it does not track, with fresh channels, and
\* starts the handler of its class
C23_Step ==
  /\ (spc = "reap" /\ spc' # "reap") =>
       \A id \in DevIds :
         Tracked(id) => (output[id] # <<>> <=> ~Tracked(id)')
  /\ (spc = "enumerate" /\ spc' # "enumerate") =>
       \A id \in DevIds :
         (~Tracked(id) /\ DeviceOf(id) \in present) =>
           /\ output'[id] = <<>>
           /\ close'[id] = <<>>
           /\ HandlerKind(DeviceOf(id)) # "none" => hpc'[id] = "grab"

\* C23: when main() finds a value on a tracked handler's outcome channel it
\* removes the identity in the same iteration; an enumeration that lists
\* the device afterwards tracks it again and starts a new handler.
C23_ReapedThenRestarted == [][C23_Step]_vars

\* a handler that was cancelled and reaped has been started again: it is
\* tracked, with empty channels, and is about to grab
C23_Witness ==
  \E id \in DevIds :
    /\ spc = "reap"
    /\ hpc[id] = "grab"
    /\ output[id] = <<>>
    /\ close[id] = <<>>
    /\ DeviceOf(id) \in present

\* C24: the select at the top of main()'s loop handles every notification
\* that waits at that moment: none is left for a later iteration.
C24_AllPendingHandled ==
  [][(spc = "select" /\ spc' = "enumerate") => udevCh' = <<>>]_vars

(***************************************************************************)
(* Properties of the reads                                                 *)
(***************************************************************************)
\* a read of handler id ends in a timeout in this step
ReadTimesOut(id) == lastEvent'[id] = TimedOut /\ lastEvent[id] # TimedOut

\* C25: a read timeout is not an error: it leaves the KeyState, the
\* MouseState, the queues and the outcome channel as they are, and the
\* handler stays in its loop, where it reads again.
C25_TimeoutChangesNothing ==
  /\ [][\A id \in DevIds :
          ReadTimesOut(id) =>
            /\ keysDown'[id] = keysDown[id]
            /\ buttons'[id] = buttons[id]
            /\ keyboardInput' = keyboardInput
            /\ mouseInput' = mouseInput
            /\ output'[id] = output[id]
            /\ alive'
            /\ hpc'[id] = "stream"]_vars
  /\ [](\A id \in DevIds :
          lastEvent[id] = TimedOut =>
            alive /\ hpc[id] = "stream" /\ outcomes[id] = <<>>)

\* a read of the keyboard has timed out while two keys are held and their
\* report waits in the queue
C25_Witness ==
  /\ lastEvent[KbdA] = TimedOut
  /\ Len(keysDown[KbdA]) = 2
  /\ keyboardInput # <<>>
  /\ hpc[KbdA] = "stream"

\* the keyboard handler id handles a key event of a scancode that is not in
\* the table in this step
HandlesUnknownKey(id) ==
  /\ HandlesEvent(id)
  /\ lastEvent'[id].Type = EV_KEY
  /\ lastEvent'[id].Code \notin {p[1] : p \in ScancodeTable}

\* the event changes neither the KeyState nor the queue
NoKeyEffect(id) ==
  /\ keysDown'[id] = keysDown[id]
  /\ keyboardInput' = keyboardInput
  /\ lastReport'[id] = lastReport[id]

\* C26 as stated: a key event of a scancode that is not in the table leaves
\* the KeyState unchanged, enqueues no report, sends nothing on the outcome
\* channel and does not terminate the handler.
C26_UnknownKeyNeverStops ==
  [][\A id \in DevIds :
       HandlesUnknownKey(id) =>
         /\ NoKeyEffect(id)
         /\ output'[id] = output[id]
         /\ hpc'[id] = "stream"]_vars

\* C26: a key event of a scancode that is not in the table leaves the
\* KeyState unchanged and enqueues no report; it sends nothing on the
\* outcome channel and the handler goes on, unless it is the 4th event
\* since the last select on close and a signal waits: then the handler
\* sends nil and stops, as after any other event.
C26_UnknownKeyIgnored ==
  [][\A id \in DevIds :
       HandlesUnknownKey(id) =>
         /\ NoKeyEffect(id)
         /\ IF loop[id] + 1 = CheckEvery /\ close[id] # <<>>
            THEN output'[id] = Append(output[id], Nil) /\ hpc'[id] = "done"
            ELSE output'[id] = output[id] /\ hpc'[id] = "stream"]_vars

\* the key 30 is held, the unknown key was pressed last and the handler
\* goes on: the last report is still the one of key 30
C26_Witness ==
  /\ lastEvent[KbdA] = KeyDownOf(240)
  /\ keysDown[KbdA] = <<4>>
  /\ lastReport[KbdA] = <<0, 0, 4, 0, 0, 0, 0, 0>>
  /\ hpc[KbdA] = "stream"
  /\ output[KbdA] = <<>>

(***************************************************************************)
(* Properties of the latency statistics                                    *)
(***************************************************************************)
\* the smallest and the largest of a sequence of numbers
Smallest(l) == CHOOSE x \in {l[i] : i \in 1..Len(l)} :
                 \A i \in 1..Len(l) : x <= l[i]
Largest(l) == CHOOSE x \in {l[i] : i \in 1..Len(l)} :
                \A i \in 1..Len(l) : x >= l[i]

\* avg := (avg + l) / 2 over a sequence of latencies, from 0
RECURSIVE Averaged(_)
Averaged(l) ==
  IF l = <<>> THEN 0
  ELSE (Averaged(SubSeq(l, 1, Len(l) - 1)) + l[Len(l)]) \div 2

\* C27: after a writer has written reports of latencies l1..ln, none
\* negative, its min is the smallest of them, its max the largest, and its
\* avg follows avg := (avg + l) / 2 from 0.
C27_MinMaxAvg ==
  \A c \in Classes :
    latencies[c] # <<>> =>
      /\ wstat[c].min = Smallest(latencies[c])
      /\ wstat[c].max = Largest(latencies[c])
      /\ wstat[c].avg = Averaged(latencies[c])

\* the part of C27 on max and avg
MaxAvgFollow ==
  \A c \in Classes :
    latencies[c] # <<>> =>
      /\ wstat[c].max = Largest(latencies[c])
      /\ wstat[c].avg = Averaged(latencies[c])

(***************************************************************************)
(* Properties of progress                                                  *)
(***************************************************************************)
\* C28: a handler with a signal waiting in its close channel eventually
\* receives it, sends nil and releases the device, also when the device
\* delivers nothing more and every read times out.
C28_SignalEventuallyObserved ==
  \A id \in DevIds :
    (hpc[id] = "stream" /\ close[id] # <<>>)
      ~> (hpc[id] = "done" /\ outcomes[id] = <<Nil>> /\ ~releasePending[id])

(***************************************************************************)
(* Properties of a handler started again                                   *)
(***************************************************************************)
\* handler id calls dev.Grab() in this step
Grabs(id) == hpc[id] = "grab" /\ hpc'[id] # "grab"

\* C29: whenever a handler that was just started calls dev.Grab(), every
\* earlier handler of the identity has run its deferred dev.Release().
C29_GrabAfterRelease ==
  [][\A id \in DevIds :
       Grabs(id) => (id \notin grabbed /\ ~releasePending[id])]_vars

\* the signals the handler of id has received from close or can still
\* receive
SignalsSeen(id) == Len(close[id]) + (IF observed[id] THEN 1 ELSE 0)

\* C30: a handler never observes a signal sent before it was started: the
\* signals it has received or finds in its close channel are those main()
\* sent since its start, whatever the channel of the earlier handler held.
C30_OnlySignalsSinceStart ==
  \A id \in DevIds :
    (Tracked(id) /\ hpc[id] \in {"grab", "stream", "done"}) =>
      SignalsSeen(id) = signalLog[id].sent

\* a handler started again streams with an empty close channel and has
\* observed nothing, though the handler before it left a signal unread
C30_Witness ==
  \E id \in DevIds :
    /\ signalLog[id].unread > 0
    /\ signalLog[id].sent = 0
    /\ hpc[id] = "stream"
    /\ close[id] = <<>>
    /\ ~observed[id]

(***************************************************************************)
(* Properties of the buttons byte                                          *)
(***************************************************************************)
\* the left, right and middle buttons that the events the handler of id has
\* read leave pressed, as bits 0, 1 and 2
HeldButtons(id) ==
  (IF 272 \in physDown[id] THEN BUTTON_LEFT ELSE 0)
    + (IF 273 \in physDown[id] THEN BUTTON_RIGHT ELSE 0)
    + (IF 274 \in physDown[id] THEN BUTTON_MIDDLE ELSE 0)

\* C31: byte 0 of every report a mouse handler enqueues, reports of motion
\* included, is the mask of the left, right and middle buttons held
\* according to the button events read so far (bit 0 left, bit 1 right,
\* bit 2 middle); its bits 3..7 are 0.
C31_ButtonsByte ==
  /\ lastReport[MseA] # NoReport =>
       /\ lastReport[MseA][1] = HeldButtons(MseA)
       /\ lastReport[MseA][1] \in 0..7
  /\ \A i \in 1..Len(mouseInput) :
       /\ mouseInput[i].Message[1] = HeldButtons(MseA)
       /\ mouseInput[i].Message[1] \in 0..7

\* C31's case: the mouse moves while the left, the middle and the side
\* button are held
C31_Witness ==
  /\ lastEvent[MseA].Type = EV_REL
  /\ physDown[MseA] = {272, 274, 275}
  /\ lastReport[MseA][1] = 5
  /\ mouseInput # <<>>

=============================================================================
